---- MODULE Spec2Model ----
(***************************************************************************)
(* Lox parsers (nom-lox, combine-lox, chumsky-lox) as pure functions from  *)
(* a source text to Result<Program, String>.                               *)
(*                                                                         *)
(* A source text is a sequence of one-character strings.  An AST node is a *)
(* record with the same five fields for every variant, so that two nodes   *)
(* can always be compared.                                                 *)
(***************************************************************************)
EXTENDS Integers, Sequences, FiniteSets, TLC

VARIABLES input, nomResult, combineResult, chumskyResult,
          lexed, benchmark, comparison, winnowResult, theProgram, converted

vars == <<input, nomResult, combineResult, chumskyResult,
          lexed, benchmark, comparison, winnowResult, theProgram, converted>>

(***************************************************************************)
(* Characters and strings                                                  *)
(***************************************************************************)
Lower == {"a","b","c","d","e","f","g","h","i","j","k","l","m",
          "n","o","p","q","r","s","t","u","v","w","x","y","z"}

Upper == {"A","B","C","D","E","F","G","H","I","J","K","L","M",
          "N","O","P","Q","R","S","T","U","V","W","X","Y","Z"}

Alpha == Lower \cup Upper

Digit == {"0","1","2","3","4","5","6","7","8","9"}

AlphaNumeric == Alpha \cup Digit

Multispace == {" ", "\t", "\r", "\n"}

Take(s, n) == SubSeq(s, 1, n)

Drop(s, n) == SubSeq(s, n + 1, Len(s))

StartsWith(s, p) == Len(s) >= Len(p) /\ Take(s, Len(p)) = p

RECURSIVE RunLen(_, _)
RunLen(s, class) ==
    IF s = <<>> THEN 0
    ELSE IF Head(s) \in class THEN 1 + RunLen(Tail(s), class)
    ELSE 0

RECURSIVE RunLenNot(_, _)
RunLenNot(s, class) ==
    IF s = <<>> THEN 0
    ELSE IF Head(s) \notin class THEN 1 + RunLenNot(Tail(s), class)
    ELSE 0

RECURSIVE Concat(_)
Concat(ss) == IF ss = <<>> THEN <<>> ELSE Head(ss) \o Concat(Tail(ss))

ToLowerChar(c) ==
    CASE c = "A" -> "a" [] c = "F" -> "f" [] c = "I" -> "i" [] c = "N" -> "n"
      [] c = "T" -> "t" [] c = "Y" -> "y" [] OTHER -> c

(***************************************************************************)
(* lox-ast: Value, Expr, Stmt, Program                                     *)
(***************************************************************************)
NoValue == [vt |-> "None", b |-> FALSE, neg |-> FALSE, mant |-> 0, exp |-> 0, s |-> <<>>]

ValueNil == [NoValue EXCEPT !.vt = "Nil"]

ValueBool(b) == [NoValue EXCEPT !.vt = "Bool", !.b = b]

ValueString(s) == [NoValue EXCEPT !.vt = "String", !.s = s]

ValueNaN == [NoValue EXCEPT !.vt = "NaN"]

ValueInf(neg) == [NoValue EXCEPT !.vt = "Inf", !.neg = neg]

RECURSIVE NormMant(_, _)
NormMant(mant, exp) ==
    IF mant = 0 THEN <<0, 0>>
    ELSE IF mant % 10 = 0 THEN NormMant(mant \div 10, exp + 1)
    ELSE <<mant, exp>>

ValueNumber(neg, mant, exp) ==
    LET n == NormMant(mant, exp) IN
    [NoValue EXCEPT !.vt = "Number", !.neg = (neg /\ n[1] # 0),
                    !.mant = n[1], !.exp = n[2]]

Node(kind, op, name, value, kids) ==
    [kind |-> kind, op |-> op, name |-> name, value |-> value, kids |-> kids]

Literal(v) == Node("Literal", "", <<>>, v, <<>>)

Variable(name) == Node("Variable", "", name, NoValue, <<>>)

Binary(left, op, right) == Node("Binary", op, <<>>, NoValue, <<left, right>>)

Unary(op, operand) == Node("Unary", op, <<>>, NoValue, <<operand>>)

Grouping(e) == Node("Grouping", "", <<>>, NoValue, <<e>>)

Assignment(name, value) == Node("Assignment", "", name, NoValue, <<value>>)

StmtExpression(e) == Node("Expression", "", <<>>, NoValue, <<e>>)

StmtPrint(e) == Node("Print", "", <<>>, NoValue, <<e>>)

StmtVarDeclaration(name, initializer) ==
    Node("VarDeclaration", "", name, NoValue, initializer)

\* #[derive(PartialEq)] on Value: f64 equality, so NaN differs from itself.
ValueEq(v, w) == v = w /\ v.vt # "NaN"

RECURSIVE NodeEq(_, _)
NodeEq(a, b) ==
    /\ a.kind = b.kind
    /\ a.op = b.op
    /\ a.name = b.name
    /\ (a.kind = "Literal" => ValueEq(a.value, b.value))
    /\ Len(a.kids) = Len(b.kids)
    /\ \A i \in 1..Len(a.kids) : NodeEq(a.kids[i], b.kids[i])

ProgramEq(p, q) ==
    /\ Len(p) = Len(q)
    /\ \A i \in 1..Len(p) : NodeEq(p[i], q[i])

(***************************************************************************)
(* Result<Program, String> of a parse_program                              *)
(***************************************************************************)
NotRun == [status |-> "NotRun", statements |-> <<>>, err |-> ""]

ResultOk(statements) == [status |-> "Ok", statements |-> statements, err |-> ""]

ResultErr(kind) == [status |-> "Err", statements |-> <<>>, err |-> kind]

ResultEq(r, q) ==
    /\ r.status = q.status
    /\ (r.status = "Ok" => ProgramEq(r.statements, q.statements))

(***************************************************************************)
(* A parser's result is bound once and then inspected, as `let` and `?`    *)
(* do in the sources: Bind(p(i), LAMBDA r : ...).                          *)
(***************************************************************************)
Bind(v, K(_)) == K(v)

\* The six binary levels, tightest first; each takes its operands from the
\* level below it, and factor takes them from unary.
Levels == <<"factor", "term", "comparison", "equality", "logical_and", "logical_or">>

LevelIndex(level) == CHOOSE k \in 1..Len(Levels) : Levels[k] = level

LevelBelow(level) == Levels[LevelIndex(level) - 1]

LevelAbove(level) == Levels[LevelIndex(level) + 1]

(***************************************************************************)
(* nom 8 combinators (complete variants) on a source text.  A parser       *)
(* returns Ok(rest, out), Error (recoverable: alt, many0 and opt go on) or *)
(* Failure (raised by cut: nothing recovers from it).                      *)
(***************************************************************************)
Ok(rest, out) == [tag |-> "Ok", rest |-> rest, out |-> out]

Error == [tag |-> "Error"]

Failure == [tag |-> "Failure"]

nom_tag(t, i) == IF StartsWith(i, t) THEN Ok(Drop(i, Len(t)), t) ELSE Error

nom_multispace0(i) == Drop(i, RunLen(i, Multispace))

\* The first entry of `table` (pairs <<text, value>>) whose text starts `i`:
\* alt((value(v1, tag(t1)), value(v2, tag(t2)), ...)).
RECURSIVE nom_alt_tags(_, _)
nom_alt_tags(table, i) ==
    IF table = <<>> THEN Error
    ELSE IF StartsWith(i, Head(table)[1])
         THEN Ok(Drop(i, Len(Head(table)[1])), Head(table)[2])
         ELSE nom_alt_tags(Tail(table), i)

\* delimited(multispace0, alt(table), multispace0)
nom_delimited_op(table, i) ==
    Bind(nom_alt_tags(table, nom_multispace0(i)), LAMBDA r :
        IF r.tag # "Ok" THEN r ELSE Ok(nom_multispace0(r.rest), r.out))

(***************************************************************************)
(* nom::number::complete::double, as number_literal uses it                *)
(***************************************************************************)
DigitVal(c) ==
    CASE c = "0" -> 0 [] c = "1" -> 1 [] c = "2" -> 2 [] c = "3" -> 3
      [] c = "4" -> 4 [] c = "5" -> 5 [] c = "6" -> 6 [] c = "7" -> 7
      [] c = "8" -> 8 [] c = "9" -> 9

RECURSIVE DigitsVal(_, _)
DigitsVal(ds, acc) ==
    IF ds = <<>> THEN acc ELSE DigitsVal(Tail(ds), 10 * acc + DigitVal(Head(ds)))

\* [sign] (digits [. [digits]] | . digits): Ok(rest, parts) or Error
recognize_mantissa(i) ==
    Bind(IF i # <<>> /\ Head(i) \in {"+", "-"} THEN 1 ELSE 0, LAMBDA sgn :
    Bind(RunLen(Drop(i, sgn), Digit), LAMBDA nint :
    Bind(Drop(i, sgn + nint), LAMBDA b :
    Bind(b # <<>> /\ Head(b) = ".", LAMBDA dot :
    Bind(IF dot THEN RunLen(Tail(b), Digit) ELSE 0, LAMBDA nfr :
        IF nint = 0 /\ nfr = 0 THEN Error
        ELSE Ok(IF dot THEN Drop(b, 1 + nfr) ELSE b,
                [neg  |-> sgn = 1 /\ Head(i) = "-",
                 int  |-> SubSeq(i, sgn + 1, sgn + nint),
                 frac |-> IF dot THEN Take(Tail(b), nfr) ELSE <<>>])
    )))))

\* [(e|E) [sign] cut(digits)]: Ok(rest, parts), or Failure after a bare e
recognize_exponent(c) ==
    IF c = <<>> \/ Head(c) \notin {"e", "E"} THEN Ok(c, [eneg |-> FALSE, exp |-> <<>>])
    ELSE
    Bind(Tail(c), LAMBDA d :
    Bind(IF d # <<>> /\ Head(d) \in {"+", "-"} THEN 1 ELSE 0, LAMBDA esgn :
    Bind(RunLen(Drop(d, esgn), Digit), LAMBDA nexp :
        IF nexp = 0 THEN Failure
        ELSE Ok(Drop(d, esgn + nexp),
                [eneg |-> esgn = 1 /\ Head(d) = "-",
                 exp  |-> SubSeq(d, esgn + 1, esgn + nexp)])
    )))

\* recognize_float: mantissa then optional exponent, the text cut into parts
recognize_float(i) ==
    Bind(recognize_mantissa(i), LAMBDA m :
        IF m.tag # "Ok" THEN m ELSE
    Bind(recognize_exponent(m.rest), LAMBDA x :
        IF x.tag # "Ok" THEN x
        ELSE Ok(x.rest, [neg |-> m.out.neg, int |-> m.out.int, frac |-> m.out.frac,
                         eneg |-> x.out.eneg, exp |-> x.out.exp])
    ))

\* str::parse::<f64> of a recognized float: its decimal value.
parse_f64(p) ==
    ValueNumber(p.neg, DigitsVal(p.int \o p.frac, 0),
                (IF p.eneg THEN 0 - DigitsVal(p.exp, 0) ELSE DigitsVal(p.exp, 0))
                    - Len(p.frac))

tag_no_case(t, i) ==
    IF Len(i) >= Len(t) /\ [k \in 1..Len(t) |-> ToLowerChar(i[k])] = t
    THEN Ok(Drop(i, Len(t)), t) ELSE Error

nom_double(i) ==
    Bind(recognize_float(i), LAMBDA f :
        IF f.tag = "Ok" THEN Ok(f.rest, parse_f64(f.out))
        ELSE IF f.tag = "Failure" THEN Failure
        ELSE IF tag_no_case(<<"n","a","n">>, i).tag = "Ok"
             THEN Ok(Drop(i, 3), ValueNaN)
        ELSE IF tag_no_case(<<"i","n","f","i","n","i","t","y">>, i).tag = "Ok"
             THEN Ok(Drop(i, 8), ValueInf(FALSE))
        ELSE IF tag_no_case(<<"i","n","f">>, i).tag = "Ok"
             THEN Ok(Drop(i, 3), ValueInf(FALSE))
        ELSE Error)

(***************************************************************************)
(* nom-lox/src/parser.rs                                                   *)
(***************************************************************************)
\* take_until("\n") fails when the text holds no "\n".
nom_line_comment(i) ==
    IF ~StartsWith(i, <<"/", "/">>) THEN Error
    ELSE Bind(RunLenNot(Drop(i, 2), {"\n"}), LAMBDA n :
            IF n = Len(i) - 2 THEN Error ELSE Ok(Drop(i, 2 + n), <<>>))

RECURSIVE nom_whitespace(_)
nom_whitespace(i) ==
    IF i # <<>> /\ Head(i) \in Multispace THEN nom_whitespace(nom_multispace0(i))
    ELSE Bind(nom_line_comment(i), LAMBDA c :
            IF c.tag = "Ok" THEN nom_whitespace(c.rest) ELSE Ok(i, <<>>))

nom_identifier(i) ==
    IF i = <<>> \/ Head(i) \notin (Alpha \cup {"_"}) THEN Error
    ELSE Bind(RunLen(i, AlphaNumeric \cup {"_"}), LAMBDA n :
            Ok(Drop(i, n), Take(i, n)))

nom_string_literal(i) ==
    IF i = <<>> \/ Head(i) # "\"" THEN Error
    ELSE Bind(RunLenNot(Tail(i), {"\""}), LAMBDA n :
            IF n = 0 \/ n = Len(i) - 1 THEN Error
            ELSE Ok(Drop(i, n + 2), SubSeq(i, 2, n + 1)))

nom_number_literal(i) == nom_double(i)

nom_boolean_literal(i) ==
    nom_alt_tags(<< <<<<"t","r","u","e">>, TRUE>>,
                    <<<<"f","a","l","s","e">>, FALSE>> >>, i)

nom_nil_literal(i) == nom_tag(<<"n","i","l">>, i)

nom_literal(i) ==
    Bind(nom_nil_literal(i), LAMBDA n :
        IF n.tag = "Ok" THEN Ok(n.rest, ValueNil) ELSE
    Bind(nom_boolean_literal(i), LAMBDA b :
        IF b.tag = "Ok" THEN Ok(b.rest, ValueBool(b.out)) ELSE
    Bind(nom_number_literal(i), LAMBDA d :
        IF d.tag # "Error" THEN d ELSE
    Bind(nom_string_literal(i), LAMBDA s :
        IF s.tag = "Ok" THEN Ok(s.rest, ValueString(s.out)) ELSE Error
    ))))

RECURSIVE nom_primary(_), nom_unary(_), nom_factor(_), nom_term(_),
          nom_comparison(_), nom_equality(_), nom_logical_and(_),
          nom_logical_or(_), nom_assignment(_), nom_expression(_),
          nom_operand(_, _), nom_many0_ops(_, _, _), nom_levels_upto(_, _, _),
          nom_binary_level(_, _)

nom_primary(i) ==
    Bind(nom_literal(i), LAMBDA l :
        IF l.tag = "Ok" THEN Ok(l.rest, Literal(l.out))
        ELSE IF l.tag = "Failure" THEN Failure ELSE
    Bind(nom_identifier(i), LAMBDA v :
        IF v.tag = "Ok" THEN Ok(v.rest, Variable(v.out)) ELSE
    Bind(nom_delimited_op(<< <<<<"(">>, "(">> >>, i), LAMBDA o :
        IF o.tag # "Ok" THEN Error ELSE
    Bind(nom_expression(o.rest), LAMBDA e :
        IF e.tag # "Ok" THEN e ELSE
    Bind(nom_delimited_op(<< <<<<")">>, ")">> >>, e.rest), LAMBDA c :
        IF c.tag # "Ok" THEN Error
        ELSE Ok(c.rest, Grouping(e.out))
    )))))

nom_unary(i) ==
    Bind(nom_delimited_op(<< <<<<"!">>, "Not">>, <<<<"-">>, "Minus">> >>, i), LAMBDA o :
        IF o.tag # "Ok" THEN nom_primary(i) ELSE
    Bind(nom_unary(o.rest), LAMBDA u :
        IF u.tag = "Ok" THEN Ok(u.rest, Unary(o.out, u.out))
        ELSE IF u.tag = "Failure" THEN Failure
        ELSE nom_primary(i)
    ))

\* nom_ops with the tables of factor and term exchanged
nom_ops_swapped(level) ==
    CASE level = "factor" -> << <<<<"+">>, "Add">>, <<<<"-">>, "Subtract">> >>
      [] level = "term" -> << <<<<"*">>, "Multiply">>, <<<<"/">>, "Divide">> >>
      [] level = "comparison" ->
            << <<<<">", "=">>, "GreaterEqual">>, <<<<">">>, "Greater">>,
               <<<<"<", "=">>, "LessEqual">>, <<<<"<">>, "Less">> >>
      [] level = "equality" ->
            << <<<<"!", "=">>, "NotEqual">>, <<<<"=", "=">>, "Equal">> >>
      [] level = "logical_and" -> << <<<<"a","n","d">>, "And">> >>
      [] level = "logical_or" -> << <<<<"o","r">>, "Or">> >>

\* The operator table of each binary level, in the order alt tries it.
nom_ops(level) ==
    CASE level = "factor" -> << <<<<"*">>, "Multiply">>, <<<<"/">>, "Divide">> >>
      [] level = "term" -> << <<<<"+">>, "Add">>, <<<<"-">>, "Subtract">> >>
      [] level = "comparison" ->
            << <<<<">", "=">>, "GreaterEqual">>, <<<<">">>, "Greater">>,
               <<<<"<", "=">>, "LessEqual">>, <<<<"<">>, "Less">> >>
      [] level = "equality" ->
            << <<<<"!", "=">>, "NotEqual">>, <<<<"=", "=">>, "Equal">> >>
      [] level = "logical_and" -> << <<<<"a","n","d">>, "And">> >>
      [] level = "logical_or" -> << <<<<"o","r">>, "Or">> >>

\* The parser of the operands of each binary level.
nom_operand(level, i) ==
    IF level = "factor" THEN nom_unary(i) ELSE nom_binary_level(LevelBelow(level), i)

\* many0(pair(delimited(multispace0, alt(ops), multispace0), operand)):
\* the pairs <<op, expr>> in order, up to the first pair that fails.
nom_many0_ops(level, i, acc) ==
    Bind(nom_delimited_op(nom_ops(level), i), LAMBDA o :
        IF o.tag # "Ok" THEN Ok(i, acc) ELSE
    Bind(nom_operand(level, o.rest), LAMBDA e :
        IF e.tag = "Failure" THEN Failure
        ELSE IF e.tag # "Ok" THEN Ok(i, acc)
        ELSE IF Len(e.rest) = Len(i) THEN Error
        ELSE nom_many0_ops(level, e.rest, Append(acc, <<o.out, e.out>>))
    ))

\* nom_fold nesting to the right
RECURSIVE nom_fold_right(_, _)
nom_fold_right(init, ops) ==
    IF ops = <<>> THEN init
    ELSE Binary(init, Head(ops)[1], nom_fold_right(Head(ops)[2], Tail(ops)))

\* ops.into_iter().fold(init, |acc, (op, expr)| Binary{acc, op, expr})
RECURSIVE nom_fold(_, _)
nom_fold(init, ops) ==
    IF ops = <<>> THEN init
    ELSE nom_fold(Binary(init, Head(ops)[1], Head(ops)[2]), Tail(ops))

\* The body of `level` after its first operand `init`, and then the bodies of
\* the levels above it up to `top`, each taking the result below as its init:
\*   let (input, ops) = many0(..)(input)?;  Ok((input, ops.fold(init, ..)))
nom_levels_upto(top, level, init) ==
    IF init.tag # "Ok" THEN init ELSE
    Bind(nom_many0_ops(level, init.rest, <<>>), LAMBDA ops :
        IF ops.tag # "Ok" THEN ops
        ELSE IF level = top THEN Ok(ops.rest, nom_fold(init.out, ops.out))
        ELSE nom_levels_upto(top, LevelAbove(level),
                             Ok(ops.rest, nom_fold(init.out, ops.out))))

\* Each level starts with the level below it, so the input goes to unary
\* first and the bodies of the levels up to `level` follow, innermost first.
nom_binary_level(level, i) ==
    Bind(nom_unary(i), LAMBDA u : nom_levels_upto(level, "factor", u))

nom_factor(i) == nom_binary_level("factor", i)

nom_term(i) == nom_binary_level("term", i)

nom_comparison(i) == nom_binary_level("comparison", i)

nom_equality(i) == nom_binary_level("equality", i)

nom_logical_and(i) == nom_binary_level("logical_and", i)

nom_logical_or(i) == nom_binary_level("logical_or", i)

\* nom_assignment with the assigned value parsed by logical_or
nom_assignment_flat(i) ==
    Bind(nom_identifier(i), LAMBDA n :
        IF n.tag # "Ok" THEN nom_logical_or(i) ELSE
    Bind(nom_delimited_op(<< <<<<"=">>, "=">> >>, n.rest), LAMBDA q :
        IF q.tag # "Ok" THEN nom_logical_or(i) ELSE
    Bind(nom_logical_or(q.rest), LAMBDA v :
        IF v.tag = "Ok" THEN Ok(v.rest, Assignment(n.out, v.out))
        ELSE IF v.tag = "Failure" THEN Failure
        ELSE nom_logical_or(i)
    )))

\* nom_assignment without the fall back to logical_or once `=` was read
nom_assignment_committed(i) ==
    Bind(nom_identifier(i), LAMBDA n :
        IF n.tag # "Ok" THEN nom_logical_or(i) ELSE
    Bind(nom_delimited_op(<< <<<<"=">>, "=">> >>, n.rest), LAMBDA q :
        IF q.tag # "Ok" THEN nom_logical_or(i) ELSE
    Bind(nom_assignment(q.rest), LAMBDA v :
        IF v.tag = "Ok" THEN Ok(v.rest, Assignment(n.out, v.out)) ELSE v
    )))

nom_assignment(i) ==
    Bind(nom_identifier(i), LAMBDA n :
        IF n.tag # "Ok" THEN nom_logical_or(i) ELSE
    Bind(nom_delimited_op(<< <<<<"=">>, "=">> >>, n.rest), LAMBDA q :
        IF q.tag # "Ok" THEN nom_logical_or(i) ELSE
    Bind(nom_assignment(q.rest), LAMBDA v :
        IF v.tag = "Ok" THEN Ok(v.rest, Assignment(n.out, v.out))
        ELSE IF v.tag = "Failure" THEN Failure
        ELSE nom_logical_or(i)
    )))

nom_expression(i) == nom_assignment(i)

nom_semicolon(i) == nom_delimited_op(<< <<<<";">>, ";">> >>, i)

nom_print_stmt(i) ==
    Bind(nom_delimited_op(<< <<<<"p","r","i","n","t">>, "print">> >>, i), LAMBDA k :
        IF k.tag # "Ok" THEN Error ELSE
    Bind(nom_expression(k.rest), LAMBDA e :
        IF e.tag # "Ok" THEN e ELSE
    Bind(nom_semicolon(e.rest), LAMBDA t :
        IF t.tag # "Ok" THEN Error
        ELSE Ok(t.rest, StmtPrint(e.out))
    )))

\* opt(preceded(delimited(multispace0, char('='), multispace0), expression)):
\* Ok(rest, <<expr>>), Ok(i, <<>>) when it does not match, or Failure
nom_opt_initializer(i) ==
    Bind(nom_delimited_op(<< <<<<"=">>, "=">> >>, i), LAMBDA q :
        IF q.tag # "Ok" THEN Ok(i, <<>>) ELSE
    Bind(nom_expression(q.rest), LAMBDA e :
        IF e.tag = "Ok" THEN Ok(e.rest, <<e.out>>)
        ELSE IF e.tag = "Failure" THEN Failure
        ELSE Ok(i, <<>>)
    ))

nom_var_declaration(i) ==
    Bind(nom_delimited_op(<< <<<<"v","a","r">>, "var">> >>, i), LAMBDA k :
        IF k.tag # "Ok" THEN Error ELSE
    Bind(nom_identifier(nom_multispace0(k.rest)), LAMBDA n :
        IF n.tag # "Ok" THEN Error ELSE
    Bind(nom_opt_initializer(nom_multispace0(n.rest)), LAMBDA o :
        IF o.tag # "Ok" THEN o ELSE
    Bind(nom_semicolon(o.rest), LAMBDA t :
        IF t.tag # "Ok" THEN Error
        ELSE Ok(t.rest, StmtVarDeclaration(n.out, o.out))
    ))))

nom_expr_stmt(i) ==
    Bind(nom_expression(i), LAMBDA e :
        IF e.tag # "Ok" THEN e ELSE
    Bind(nom_semicolon(e.rest), LAMBDA t :
        IF t.tag # "Ok" THEN Error
        ELSE Ok(t.rest, StmtExpression(e.out))
    ))

nom_statement(i) ==
    Bind(nom_whitespace(i).rest, LAMBDA w :
    Bind(nom_print_stmt(w), LAMBDA p :
        IF p.tag # "Error" THEN p ELSE
    Bind(nom_var_declaration(w), LAMBDA v :
        IF v.tag # "Error" THEN v ELSE nom_expr_stmt(w)
    )))

RECURSIVE nom_many0_statement(_, _)

\* nom_many0_statement collecting the statements last first
nom_many0_statement_reversed(i, acc) ==
    Bind(nom_statement(i), LAMBDA s :
        IF s.tag = "Failure" THEN Failure
        ELSE IF s.tag = "Error" THEN Ok(i, acc)
        ELSE IF Len(s.rest) = Len(i) THEN Error
        ELSE nom_many0_statement(s.rest, <<s.out>> \o acc))

\* many0(statement): the statements in order, up to the first that fails
nom_many0_statement(i, acc) ==
    Bind(nom_statement(i), LAMBDA s :
        IF s.tag = "Failure" THEN Failure
        ELSE IF s.tag = "Error" THEN Ok(i, acc)
        ELSE IF Len(s.rest) = Len(i) THEN Error
        ELSE nom_many0_statement(s.rest, Append(acc, s.out)))

\* nom_program without the whitespace that ends it
nom_program_unterminated(i) ==
    Bind(nom_many0_statement(i, <<>>), LAMBDA m :
        IF m.tag # "Ok" THEN m ELSE Ok(m.rest, m.out))

nom_program(i) ==
    Bind(nom_many0_statement(i, <<>>), LAMBDA m :
        IF m.tag # "Ok" THEN m
        ELSE Ok(nom_whitespace(m.rest).rest, m.out))

\* parse_program returning the statements parsed so far whatever is left
nom_parse_program_partial(i) ==
    Bind(nom_program(i), LAMBDA r :
        IF r.tag = "Ok" THEN ResultOk(r.out) ELSE ResultErr("Parse error"))

nom_parse_program(i) ==
    Bind(nom_program(i), LAMBDA r :
        IF r.tag = "Ok" /\ r.rest = <<>> THEN ResultOk(r.out)
        ELSE IF r.tag = "Ok" THEN ResultErr("Unexpected input")
        ELSE ResultErr("Parse error"))

(***************************************************************************)
(* combine 4.6 combinators.  A parser returns Ok(rest, out), PeekErr (it   *)
(* failed without consuming input: choice, many, optional and chainl1 go   *)
(* on) or CommitErr (it failed after consuming input: nothing recovers).   *)
(* Whether an Ok parser consumed input shows in the length of its rest.    *)
(***************************************************************************)
PeekErr == [tag |-> "PeekErr"]

CommitErr == [tag |-> "CommitErr"]

\* char::is_whitespace, on the characters a source text holds
combine_space == Multispace \cup {"\f"}

\* The number of leading characters of i that agree with t
RECURSIVE CommonPrefixLen(_, _)
CommonPrefixLen(t, i) ==
    IF t = <<>> \/ i = <<>> \/ Head(t) # Head(i) THEN 0
    ELSE 1 + CommonPrefixLen(Tail(t), Tail(i))

\* string(t), and char(c) as string(<<c>>): a mismatch after the first
\* character has consumed input.
combine_string(t, i) ==
    Bind(CommonPrefixLen(t, i), LAMBDA n :
        IF n = Len(t) THEN Ok(Drop(i, n), t)
        ELSE IF n = 0 THEN PeekErr
        ELSE CommitErr)

\* The result r of a later part of a sequence that started at i and had
\* reached `at`: its error is committed once the sequence consumed input.
combine_then(i, at, r) ==
    IF r.tag = "PeekErr" /\ Len(at) < Len(i) THEN CommitErr ELSE r

(***************************************************************************)
(* combine-lox/src/parser.rs                                               *)
(***************************************************************************)
combine_line_comment(i) ==
    Bind(combine_string(<<"/", "/">>, i), LAMBDA s :
        IF s.tag # "Ok" THEN s ELSE
    Bind(Drop(s.rest, RunLenNot(s.rest, {"\n", "\r"})), LAMBDA e :
        Ok(IF e # <<>> THEN Tail(e) ELSE e, <<>>)
    ))

RECURSIVE combine_ws(_)
combine_ws(i) ==
    IF i # <<>> /\ Head(i) \in combine_space THEN combine_ws(Tail(i))
    ELSE Bind(combine_line_comment(i), LAMBDA c :
            IF c.tag = "Ok" THEN combine_ws(c.rest)
            ELSE IF c.tag = "CommitErr" THEN CommitErr
            ELSE Ok(i, <<>>))

\* p.skip(ws()) for the result r of p
combine_skip_ws(r) ==
    IF r.tag # "Ok" THEN r
    ELSE Bind(combine_ws(r.rest), LAMBDA w :
            IF w.tag = "Ok" THEN Ok(w.rest, r.out) ELSE CommitErr)

combine_identifier(i) ==
    IF i = <<>> \/ Head(i) \notin (Alpha \cup {"_"}) THEN PeekErr
    ELSE Bind(RunLen(i, AlphaNumeric \cup {"_"}), LAMBDA n :
            Ok(Drop(i, n), Take(i, n)))

combine_keyword(word, i) ==
    Bind(combine_string(word, i), LAMBDA s :
        IF s.tag # "Ok" THEN s
        ELSE IF s.rest # <<>> /\ Head(s.rest) \in (AlphaNumeric \cup {"_"}) THEN CommitErr
        ELSE s)

combine_number_literal(i) ==
    Bind(RunLen(i, Digit), LAMBDA n :
        IF n = 0 THEN PeekErr
        ELSE IF Len(i) = n \/ i[n + 1] # "." THEN
            Ok(Drop(i, n), ValueNumber(FALSE, DigitsVal(Take(i, n), 0), 0))
        ELSE
    Bind(RunLen(Drop(i, n + 1), Digit), LAMBDA m :
        IF m = 0 THEN CommitErr
        ELSE Ok(Drop(i, n + 1 + m),
                ValueNumber(FALSE,
                            DigitsVal(Take(i, n) \o SubSeq(i, n + 2, n + 1 + m), 0),
                            0 - m))
    ))

combine_string_literal(i) ==
    IF i = <<>> \/ Head(i) # "\"" THEN PeekErr
    ELSE Bind(RunLenNot(Tail(i), {"\""}), LAMBDA n :
            IF n = Len(i) - 1 THEN CommitErr
            ELSE Ok(Drop(i, n + 2), SubSeq(i, 2, n + 1)))

combine_boolean_literal(i) ==
    Bind(combine_keyword(<<"t","r","u","e">>, i), LAMBDA t :
        IF t.tag = "Ok" THEN Ok(t.rest, TRUE)
        ELSE IF t.tag = "CommitErr" THEN CommitErr ELSE
    Bind(combine_keyword(<<"f","a","l","s","e">>, i), LAMBDA f :
        IF f.tag = "Ok" THEN Ok(f.rest, FALSE) ELSE f
    ))

combine_nil_literal(i) == combine_keyword(<<"n","i","l">>, i)

RECURSIVE combine_primary(_), combine_unary(_), combine_factor(_), combine_term(_),
          combine_comparison(_), combine_equality(_), combine_logical_and(_),
          combine_logical_or(_), combine_assignment(_), combine_expression(_),
          combine_operand(_, _), combine_chain_rest(_, _, _),
          combine_levels_upto(_, _, _), combine_chainl1(_, _)

\* between(char('(').skip(ws()), char(')'), expression()): the inner
\* expression itself is the output.
combine_between_parens(i) ==
    Bind(combine_skip_ws(combine_string(<<"(">>, i)), LAMBDA o :
        IF o.tag # "Ok" THEN o ELSE
    Bind(combine_expression(o.rest), LAMBDA e :
        IF e.tag # "Ok" THEN CommitErr ELSE
    Bind(combine_string(<<")">>, e.rest), LAMBDA c :
        IF c.tag # "Ok" THEN CommitErr ELSE Ok(c.rest, e.out)
    )))

combine_primary(i) ==
    Bind(combine_number_literal(i), LAMBDA n :
        IF n.tag = "Ok" THEN Ok(n.rest, Literal(n.out))
        ELSE IF n.tag = "CommitErr" THEN CommitErr ELSE
    Bind(combine_string_literal(i), LAMBDA s :
        IF s.tag = "Ok" THEN Ok(s.rest, Literal(ValueString(s.out)))
        ELSE IF s.tag = "CommitErr" THEN CommitErr ELSE
    Bind(combine_boolean_literal(i), LAMBDA b :
        IF b.tag = "Ok" THEN Ok(b.rest, Literal(ValueBool(b.out)))
        ELSE IF b.tag = "CommitErr" THEN CommitErr ELSE
    Bind(combine_nil_literal(i), LAMBDA l :
        IF l.tag = "Ok" THEN Ok(l.rest, Literal(ValueNil))
        ELSE IF l.tag = "CommitErr" THEN CommitErr ELSE
    Bind(combine_identifier(i), LAMBDA v :
        IF v.tag = "Ok" THEN Ok(v.rest, Variable(v.out))
        ELSE combine_between_parens(i)
    )))))

combine_unary(i) ==
    IF i = <<>> \/ Head(i) \notin {"!", "-"} THEN combine_primary(i)
    ELSE Bind(combine_skip_ws(Ok(Tail(i), IF Head(i) = "!" THEN "Not" ELSE "Minus")),
              LAMBDA o :
            IF o.tag # "Ok" THEN CommitErr ELSE
         Bind(combine_primary(o.rest), LAMBDA p :
            IF p.tag # "Ok" THEN CommitErr ELSE Ok(p.rest, Unary(o.out, p.out))
         ))

\* The operator choice of each chainl1 level, in the order it is tried.
combine_ops(level) ==
    CASE level = "factor" -> << <<<<"*">>, "Multiply">>, <<<<"/">>, "Divide">> >>
      [] level = "term" -> << <<<<"+">>, "Add">>, <<<<"-">>, "Subtract">> >>
      [] level = "comparison" ->
            << <<<<">", "=">>, "GreaterEqual">>, <<<<"<", "=">>, "LessEqual">>,
               <<<<">">>, "Greater">>, <<<<"<">>, "Less">> >>
      [] level = "equality" ->
            << <<<<"=", "=">>, "Equal">>, <<<<"!", "=">>, "NotEqual">> >>
      [] level = "logical_and" -> << <<<<"a","n","d">>, "And">> >>
      [] level = "logical_or" -> << <<<<"o","r">>, "Or">> >>

\* choice over the entries of an operator table, each followed by skip(ws());
\* `and` and `or` are keywords, the others strings and chars.
RECURSIVE combine_choice_op(_, _, _)
combine_choice_op(table, kw, i) ==
    IF table = <<>> THEN PeekErr
    ELSE Bind(combine_skip_ws(
                  Bind(IF kw THEN combine_keyword(Head(table)[1], i)
                       ELSE combine_string(Head(table)[1], i), LAMBDA s :
                       IF s.tag = "Ok" THEN Ok(s.rest, Head(table)[2]) ELSE s)),
              LAMBDA r :
            IF r.tag = "PeekErr" THEN combine_choice_op(Tail(table), kw, i) ELSE r)

combine_op(level, i) ==
    combine_choice_op(combine_ops(level), level \in {"logical_and", "logical_or"}, i)

\* The operand of each chainl1 level, followed by skip(ws()).
combine_operand(level, i) ==
    combine_skip_ws(IF level = "factor" THEN combine_unary(i)
                    ELSE combine_chainl1(LevelBelow(level), i))

\* The loop of chainl1: (op, operand) pairs folded into `left` as they come.
combine_chain_rest(level, i, left) ==
    Bind(combine_op(level, i), LAMBDA o :
        IF o.tag = "PeekErr" THEN Ok(i, left)
        ELSE IF o.tag = "CommitErr" THEN CommitErr ELSE
    Bind(combine_operand(level, o.rest), LAMBDA r :
        IF r.tag # "Ok" THEN CommitErr
        ELSE combine_chain_rest(level, r.rest, Binary(left, o.out, r.out))
    ))

\* The rest of chainl1 at `level` after the level below returned `l` for
\* its first operand, and then the levels above it up to `top`.
combine_levels_upto(top, level, l) ==
    Bind(combine_skip_ws(l), LAMBDA s :
        IF s.tag # "Ok" THEN s ELSE
    Bind(combine_chain_rest(level, s.rest, s.out), LAMBDA r :
        IF level = top THEN r ELSE combine_levels_upto(top, LevelAbove(level), r)
    ))

\* chainl1(operand.skip(ws()), op): each level starts with the level below
\* it, so the input goes to unary first, innermost level first.
combine_chainl1(level, i) ==
    Bind(combine_unary(i), LAMBDA u : combine_levels_upto(level, "factor", u))

combine_factor(i) == combine_chainl1("factor", i)

combine_term(i) == combine_chainl1("term", i)

combine_comparison(i) == combine_chainl1("comparison", i)

combine_equality(i) == combine_chainl1("equality", i)

combine_logical_and(i) == combine_chainl1("logical_and", i)

combine_logical_or(i) == combine_chainl1("logical_or", i)

\* The first alternative has consumed the identifier when `=` is missing.
combine_assignment(i) ==
    Bind(combine_skip_ws(combine_identifier(i)), LAMBDA n :
        IF n.tag = "PeekErr" THEN combine_logical_or(i)
        ELSE IF n.tag # "Ok" THEN CommitErr ELSE
    Bind(combine_skip_ws(combine_string(<<"=">>, n.rest)), LAMBDA q :
        IF q.tag # "Ok" THEN CommitErr ELSE
    Bind(combine_logical_or(q.rest), LAMBDA v :
        IF v.tag # "Ok" THEN CommitErr ELSE Ok(v.rest, Assignment(n.out, v.out))
    )))

combine_expression(i) == combine_assignment(i)

\* expression().skip(ws()) then char(';'), as a sequence that started at i
combine_expression_semicolon(i, at) ==
    Bind(combine_then(i, at, combine_skip_ws(combine_expression(at))), LAMBDA e :
        IF e.tag # "Ok" THEN e ELSE
    Bind(combine_then(i, e.rest, combine_string(<<";">>, e.rest)), LAMBDA t :
        IF t.tag # "Ok" THEN t ELSE Ok(t.rest, e.out)
    ))

combine_print_statement(i) ==
    Bind(combine_skip_ws(combine_keyword(<<"p","r","i","n","t">>, i)), LAMBDA k :
        IF k.tag # "Ok" THEN k ELSE
    Bind(combine_expression_semicolon(i, k.rest), LAMBDA e :
        IF e.tag # "Ok" THEN e ELSE Ok(e.rest, StmtPrint(e.out))
    ))

\* optional(char('=').skip(ws()).with(expression())).skip(ws())
combine_optional_initializer(i) ==
    Bind(combine_skip_ws(combine_string(<<"=">>, i)), LAMBDA q :
        IF q.tag = "PeekErr" THEN combine_skip_ws(Ok(i, <<>>))
        ELSE IF q.tag # "Ok" THEN CommitErr ELSE
    Bind(combine_skip_ws(combine_expression(q.rest)), LAMBDA e :
        IF e.tag # "Ok" THEN CommitErr ELSE Ok(e.rest, <<e.out>>)
    ))

combine_var_declaration(i) ==
    Bind(combine_skip_ws(combine_keyword(<<"v","a","r">>, i)), LAMBDA k :
        IF k.tag # "Ok" THEN k ELSE
    Bind(combine_skip_ws(combine_identifier(k.rest)), LAMBDA n :
        IF n.tag # "Ok" THEN CommitErr ELSE
    Bind(combine_optional_initializer(n.rest), LAMBDA o :
        IF o.tag # "Ok" THEN CommitErr ELSE
    Bind(combine_string(<<";">>, o.rest), LAMBDA t :
        IF t.tag # "Ok" THEN CommitErr
        ELSE Ok(t.rest, StmtVarDeclaration(n.out, o.out))
    ))))

combine_expression_statement(i) ==
    Bind(combine_expression_semicolon(i, i), LAMBDA e :
        IF e.tag # "Ok" THEN e ELSE Ok(e.rest, StmtExpression(e.out)))

combine_statement(i) ==
    Bind(combine_print_statement(i), LAMBDA p :
        IF p.tag # "PeekErr" THEN p ELSE
    Bind(combine_var_declaration(i), LAMBDA v :
        IF v.tag # "PeekErr" THEN v ELSE combine_expression_statement(i)
    ))

\* many(statement().skip(ws()))
RECURSIVE combine_many_statement(_, _)
combine_many_statement(i, acc) ==
    Bind(combine_skip_ws(combine_statement(i)), LAMBDA s :
        IF s.tag = "PeekErr" THEN Ok(i, acc)
        ELSE IF s.tag = "CommitErr" THEN CommitErr
        ELSE combine_many_statement(s.rest, Append(acc, s.out)))

combine_program(i) ==
    Bind(combine_ws(i), LAMBDA w :
        IF w.tag # "Ok" THEN w ELSE combine_many_statement(w.rest, <<>>))

combine_parse_program(i) ==
    Bind(combine_program(i), LAMBDA r :
        IF r.tag = "Ok" /\ r.rest = <<>> THEN ResultOk(r.out)
        ELSE IF r.tag = "Ok" THEN ResultErr("Unexpected remaining input")
        ELSE ResultErr("Parse error"))

(***************************************************************************)
(* chumsky 1.0.0-alpha.8: every parser rewinds when it fails, so a result  *)
(* is Ok(rest, out) or Error.                                              *)
(* chumsky-lox/src/parser.rs                                               *)
(***************************************************************************)
\* whitespace(): never fails; a comment runs up to "\n" or the end of input.
RECURSIVE chumsky_whitespace(_)
chumsky_whitespace(i) ==
    IF i # <<>> /\ Head(i) \in Multispace THEN chumsky_whitespace(Tail(i))
    ELSE IF StartsWith(i, <<"/", "/">>)
         THEN chumsky_whitespace(Drop(i, 2 + RunLenNot(Drop(i, 2), {"\n"})))
    ELSE i

\* choice((just(t1).to(v1), ...)) at i
RECURSIVE chumsky_choice_just(_, _)
chumsky_choice_just(table, i) ==
    IF table = <<>> THEN Error
    ELSE IF StartsWith(i, Head(table)[1])
         THEN Ok(Drop(i, Len(Head(table)[1])), Head(table)[2])
         ELSE chumsky_choice_just(Tail(table), i)

\* p.padded_by(whitespace()) for a choice of just(..)
chumsky_padded_just(table, i) ==
    Bind(chumsky_choice_just(table, chumsky_whitespace(i)), LAMBDA r :
        IF r.tag # "Ok" THEN r ELSE Ok(chumsky_whitespace(r.rest), r.out))

\* text::ident(), padded
chumsky_identifier(i) ==
    Bind(chumsky_whitespace(i), LAMBDA a :
        IF a = <<>> \/ Head(a) \notin (Alpha \cup {"_"}) THEN Error
        ELSE Bind(RunLen(a, AlphaNumeric \cup {"_"}), LAMBDA n :
                Ok(chumsky_whitespace(Drop(a, n)), Take(a, n))))

chumsky_string_literal(i) ==
    Bind(chumsky_whitespace(i), LAMBDA a :
        IF a = <<>> \/ Head(a) # "\"" THEN Error
        ELSE Bind(RunLenNot(Tail(a), {"\""}), LAMBDA n :
                IF n = Len(a) - 1 THEN Error
                ELSE Ok(chumsky_whitespace(Drop(a, n + 2)), SubSeq(a, 2, n + 1))))

\* text::int(10): "0", or a non-zero digit and the digits after it; then
\* optionally "." and one or more digits.
chumsky_number_literal(i) ==
    Bind(chumsky_whitespace(i), LAMBDA a :
        IF a = <<>> \/ Head(a) \notin Digit THEN Error ELSE
    Bind(IF Head(a) = "0" THEN 1 ELSE RunLen(a, Digit), LAMBDA n :
    Bind(IF Len(a) > n /\ a[n + 1] = "." THEN RunLen(Drop(a, n + 1), Digit) ELSE 0,
         LAMBDA m :
        IF m = 0
        THEN Ok(chumsky_whitespace(Drop(a, n)),
                ValueNumber(FALSE, DigitsVal(Take(a, n), 0), 0))
        ELSE Ok(chumsky_whitespace(Drop(a, n + 1 + m)),
                ValueNumber(FALSE,
                            DigitsVal(Take(a, n) \o SubSeq(a, n + 2, n + 1 + m), 0),
                            0 - m))
    )))

chumsky_boolean_literal(i) ==
    chumsky_padded_just(<< <<<<"t","r","u","e">>, TRUE>>,
                           <<<<"f","a","l","s","e">>, FALSE>> >>, i)

chumsky_nil_literal(i) == chumsky_padded_just(<< <<<<"n","i","l">>, "nil">> >>, i)

chumsky_literal(i) ==
    Bind(chumsky_nil_literal(i), LAMBDA n :
        IF n.tag = "Ok" THEN Ok(n.rest, ValueNil) ELSE
    Bind(chumsky_boolean_literal(i), LAMBDA b :
        IF b.tag = "Ok" THEN Ok(b.rest, ValueBool(b.out)) ELSE
    Bind(chumsky_number_literal(i), LAMBDA d :
        IF d.tag = "Ok" THEN d ELSE
    Bind(chumsky_string_literal(i), LAMBDA s :
        IF s.tag = "Ok" THEN Ok(s.rest, ValueString(s.out)) ELSE Error
    ))))

RECURSIVE chumsky_atom(_), chumsky_unary(_), chumsky_assignment(_),
          chumsky_expression(_), chumsky_operand(_, _), chumsky_repeated_ops(_, _, _),
          chumsky_levels_upto(_, _, _), chumsky_foldl(_, _)

chumsky_atom(i) ==
    Bind(chumsky_literal(i), LAMBDA l :
        IF l.tag = "Ok" THEN Ok(l.rest, Literal(l.out)) ELSE
    Bind(chumsky_identifier(i), LAMBDA v :
        IF v.tag = "Ok" THEN Ok(v.rest, Variable(v.out)) ELSE
    Bind(chumsky_padded_just(<< <<<<"(">>, "(">> >>, i), LAMBDA o :
        IF o.tag # "Ok" THEN Error ELSE
    Bind(chumsky_expression(o.rest), LAMBDA e :
        IF e.tag # "Ok" THEN Error ELSE
    Bind(chumsky_padded_just(<< <<<<")">>, ")">> >>, e.rest), LAMBDA c :
        IF c.tag # "Ok" THEN Error ELSE Ok(c.rest, Grouping(e.out))
    )))))

\* The operand of `!` and `-` is expr.clone(): a whole expression.
chumsky_unary(i) ==
    Bind(chumsky_padded_just(<< <<<<"!">>, "Not">>, <<<<"-">>, "Minus">> >>, i), LAMBDA o :
        IF o.tag # "Ok" THEN chumsky_atom(i) ELSE
    Bind(chumsky_expression(o.rest), LAMBDA e :
        IF e.tag # "Ok" THEN Error ELSE Ok(e.rest, Unary(o.out, e.out))
    ))

\* The operator choice of each foldl level, in the order it is tried.
chumsky_ops(level) ==
    CASE level = "factor" -> << <<<<"*">>, "Multiply">>, <<<<"/">>, "Divide">> >>
      [] level = "term" -> << <<<<"+">>, "Add">>, <<<<"-">>, "Subtract">> >>
      [] level = "comparison" ->
            << <<<<">", "=">>, "GreaterEqual">>, <<<<">">>, "Greater">>,
               <<<<"<", "=">>, "LessEqual">>, <<<<"<">>, "Less">> >>
      [] level = "equality" ->
            << <<<<"!", "=">>, "NotEqual">>, <<<<"=", "=">>, "Equal">> >>
      [] level = "logical_and" -> << <<<<"a","n","d">>, "And">> >>
      [] level = "logical_or" -> << <<<<"o","r">>, "Or">> >>

\* op.then(operand).repeated(), folded into `left` by foldl
chumsky_repeated_ops(level, i, left) ==
    Bind(chumsky_padded_just(chumsky_ops(level), i), LAMBDA o :
        IF o.tag # "Ok" THEN Ok(i, left) ELSE
    Bind(chumsky_operand(level, o.rest), LAMBDA r :
        IF r.tag # "Ok" THEN Ok(i, left)
        ELSE chumsky_repeated_ops(level, r.rest, Binary(left, o.out, r.out))
    ))

\* The repetition of `level` after the level below returned `l` for its
\* first operand, and then the levels above it up to `top`.
chumsky_levels_upto(top, level, l) ==
    IF l.tag # "Ok" THEN l ELSE
    Bind(chumsky_repeated_ops(level, l.rest, l.out), LAMBDA r :
        IF level = top THEN r ELSE chumsky_levels_upto(top, LevelAbove(level), r))

\* operand.foldl(op.then(operand).repeated(), ..): each level starts with
\* the level below it, so the input goes to unary first.
chumsky_foldl(level, i) ==
    Bind(chumsky_unary(i), LAMBDA u : chumsky_levels_upto(level, "factor", u))

\* The operand of each foldl level: unary, or the foldl of the level below.
chumsky_operand(level, i) ==
    IF level = "factor" THEN chumsky_unary(i) ELSE chumsky_foldl(LevelBelow(level), i)

chumsky_factor(i) == chumsky_foldl("factor", i)

chumsky_term(i) == chumsky_foldl("term", i)

chumsky_comparison(i) == chumsky_foldl("comparison", i)

chumsky_equality(i) == chumsky_foldl("equality", i)

chumsky_logical_and(i) == chumsky_foldl("logical_and", i)

chumsky_logical_or(i) == chumsky_foldl("logical_or", i)

chumsky_assignment(i) ==
    Bind(chumsky_identifier(i), LAMBDA n :
        IF n.tag # "Ok" THEN chumsky_logical_or(i) ELSE
    Bind(chumsky_padded_just(<< <<<<"=">>, "=">> >>, n.rest), LAMBDA q :
        IF q.tag # "Ok" THEN chumsky_logical_or(i) ELSE
    Bind(chumsky_expression(q.rest), LAMBDA v :
        IF v.tag # "Ok" THEN chumsky_logical_or(i)
        ELSE Ok(v.rest, Assignment(n.out, v.out))
    )))

chumsky_expression(i) == chumsky_assignment(i)

chumsky_semicolon(i) == chumsky_padded_just(<< <<<<";">>, ";">> >>, i)

chumsky_print_stmt(i) ==
    Bind(chumsky_padded_just(<< <<<<"p","r","i","n","t">>, "print">> >>, i), LAMBDA k :
        IF k.tag # "Ok" THEN Error ELSE
    Bind(chumsky_expression(k.rest), LAMBDA e :
        IF e.tag # "Ok" THEN Error ELSE
    Bind(chumsky_semicolon(e.rest), LAMBDA t :
        IF t.tag # "Ok" THEN Error ELSE Ok(t.rest, StmtPrint(e.out))
    )))

\* just('=').padded_by(whitespace()).ignore_then(expression()).or_not()
chumsky_or_not_initializer(i) ==
    Bind(chumsky_padded_just(<< <<<<"=">>, "=">> >>, i), LAMBDA q :
        IF q.tag # "Ok" THEN Ok(i, <<>>) ELSE
    Bind(chumsky_expression(q.rest), LAMBDA e :
        IF e.tag # "Ok" THEN Ok(i, <<>>) ELSE Ok(e.rest, <<e.out>>)
    ))

chumsky_var_declaration(i) ==
    Bind(chumsky_padded_just(<< <<<<"v","a","r">>, "var">> >>, i), LAMBDA k :
        IF k.tag # "Ok" THEN Error ELSE
    Bind(chumsky_identifier(k.rest), LAMBDA n :
        IF n.tag # "Ok" THEN Error ELSE
    Bind(chumsky_or_not_initializer(n.rest), LAMBDA o :
    Bind(chumsky_semicolon(o.rest), LAMBDA t :
        IF t.tag # "Ok" THEN Error
        ELSE Ok(t.rest, StmtVarDeclaration(n.out, o.out))
    ))))

chumsky_expr_stmt(i) ==
    Bind(chumsky_expression(i), LAMBDA e :
        IF e.tag # "Ok" THEN Error ELSE
    Bind(chumsky_semicolon(e.rest), LAMBDA t :
        IF t.tag # "Ok" THEN Error ELSE Ok(t.rest, StmtExpression(e.out))
    ))

chumsky_statement(i) ==
    Bind(chumsky_print_stmt(i), LAMBDA p :
        IF p.tag = "Ok" THEN p ELSE
    Bind(chumsky_var_declaration(i), LAMBDA v :
        IF v.tag = "Ok" THEN v ELSE chumsky_expr_stmt(i)
    ))

\* statement().repeated().collect()
RECURSIVE chumsky_repeated_statement(_, _)
chumsky_repeated_statement(i, acc) ==
    Bind(chumsky_statement(i), LAMBDA s :
        IF s.tag # "Ok" THEN Ok(i, acc)
        ELSE chumsky_repeated_statement(s.rest, Append(acc, s.out)))

\* whitespace().ignore_then(statements).then_ignore(end())
chumsky_program(i) ==
    Bind(chumsky_repeated_statement(chumsky_whitespace(i), <<>>), LAMBDA r :
        IF r.rest = <<>> THEN r ELSE Error)

chumsky_parse_program(i) ==
    Bind(chumsky_program(i), LAMBDA r :
        IF r.tag = "Ok" THEN ResultOk(r.out) ELSE ResultErr("Parse error"))

(***************************************************************************)
(* winnow-lox/src/parser.rs.  A parser returns Ok(rest, out), Backtrack    *)
(* (alt, opt and repeat go on), Cut (nothing recovers) or Panic.  repeat   *)
(* ends with ParserError::assert when its parser succeeds without          *)
(* consuming: a panic in a build with debug assertions, an error that is   *)
(* not recovered from in a build without them; `b` is the build.           *)
(***************************************************************************)
Builds == {"debug", "release"}

Backtrack == [tag |-> "Backtrack"]

Cut == [tag |-> "Cut"]

Panic == [tag |-> "Panic"]

\* ParserError::assert(input, "`repeat` parsers must always consume")
winnow_assert(b) == IF b = "debug" THEN Panic ELSE Cut

\* A literal: "print", ';', ...
winnow_literal_tag(t, i) == IF StartsWith(i, t) THEN Ok(Drop(i, Len(t)), t) ELSE Backtrack

\* p then q, every error of p returned as it is
winnow_then(r, K(_)) == IF r.tag # "Ok" THEN r ELSE K(r)

\* multispace0: the leading run of space/tab/CR/LF, which may be empty
winnow_multispace0(i) == Ok(Drop(i, RunLen(i, Multispace)), <<>>)

\* ("//", take_while(0.., |c| c != '\n'))
winnow_line_comment(i) ==
    winnow_then(winnow_literal_tag(<<"/", "/">>, i), LAMBDA s :
        Ok(Drop(s.rest, RunLenNot(s.rest, {"\n"})), <<>>))

\* alt((multispace0.void(), ("//", take_while(..)).void()))
winnow_ws_alt(i) ==
    Bind(winnow_multispace0(i), LAMBDA m :
        IF m.tag = "Backtrack" THEN winnow_line_comment(i) ELSE m)

\* winnow_ws_repeat leaving the loop when its parser consumed nothing
RECURSIVE winnow_ws_repeat_lenient(_, _)
winnow_ws_repeat_lenient(b, i) ==
    Bind(winnow_ws_alt(i), LAMBDA r :
        IF r.tag = "Ok"
        THEN IF Len(r.rest) = Len(i) THEN Ok(i, <<>>)
             ELSE winnow_ws_repeat_lenient(b, r.rest)
        ELSE IF r.tag = "Backtrack" THEN Ok(i, <<>>)
        ELSE r)

\* repeat(0.., alt(..)): after each success of the parser the loop checks
\* that input was consumed
RECURSIVE winnow_ws_repeat(_, _)
winnow_ws_repeat(b, i) ==
    Bind(winnow_ws_alt(i), LAMBDA r :
        IF r.tag = "Ok"
        THEN IF Len(r.rest) = Len(i) THEN winnow_assert(b)
             ELSE winnow_ws_repeat(b, r.rest)
        ELSE IF r.tag = "Backtrack" THEN Ok(i, <<>>)
        ELSE r)

winnow_ws(b, i) == winnow_ws_repeat(b, i)

winnow_identifier(i) ==
    Bind(RunLen(i, AlphaNumeric \cup {"_"}), LAMBDA n :
        IF n = 0 \/ Head(i) \notin (Alpha \cup {"_"}) THEN Backtrack
        ELSE Ok(Drop(i, n), Take(i, n)))

winnow_string_literal(i) ==
    winnow_then(winnow_literal_tag(<<"\"">>, i), LAMBDA q :
    Bind(RunLenNot(q.rest, {"\""}), LAMBDA n :
        IF n = Len(q.rest) THEN Backtrack
        ELSE Ok(Drop(q.rest, n + 1), Take(q.rest, n))))

\* (digit1, opt(('.', digit1))).take().try_map(|s| s.parse::<f64>())
winnow_number_literal(i) ==
    Bind(RunLen(i, Digit), LAMBDA nint :
        IF nint = 0 THEN Backtrack ELSE
    Bind(Drop(i, nint), LAMBDA d :
    Bind(IF d # <<>> /\ Head(d) = "." THEN RunLen(Tail(d), Digit) ELSE 0, LAMBDA nfr :
        Ok(IF nfr > 0 THEN Drop(d, 1 + nfr) ELSE d,
           parse_f64([neg |-> FALSE, int |-> Take(i, nint),
                      frac |-> IF nfr > 0 THEN Take(Tail(d), nfr) ELSE <<>>,
                      eneg |-> FALSE, exp |-> <<>>])))))

winnow_boolean_literal(i) ==
    Bind(winnow_literal_tag(<<"t","r","u","e">>, i), LAMBDA t :
        IF t.tag = "Ok" THEN Ok(t.rest, TRUE) ELSE
    winnow_then(winnow_literal_tag(<<"f","a","l","s","e">>, i), LAMBDA f :
        Ok(f.rest, FALSE)))

winnow_nil_literal(i) == winnow_literal_tag(<<"n","i","l">>, i)

winnow_literal(i) ==
    Bind(winnow_nil_literal(i), LAMBDA n :
        IF n.tag = "Ok" THEN Ok(n.rest, ValueNil) ELSE
    Bind(winnow_boolean_literal(i), LAMBDA t :
        IF t.tag = "Ok" THEN Ok(t.rest, ValueBool(t.out)) ELSE
    Bind(winnow_number_literal(i), LAMBDA d :
        IF d.tag = "Ok" THEN d ELSE
    winnow_then(winnow_string_literal(i), LAMBDA s :
        Ok(s.rest, ValueString(s.out))))))

\* (ws, c, ws) for a one-character literal c
winnow_ws_char_ws(b, c, i) ==
    winnow_then(winnow_ws(b, i), LAMBDA w :
    winnow_then(winnow_literal_tag(<<c>>, w.rest), LAMBDA t :
    winnow_then(winnow_ws(b, t.rest), LAMBDA v : Ok(v.rest, c))))

\* The operator table of each binary level, in the order alt tries it
winnow_ops(level) ==
    CASE level = "factor" -> << <<<<"*">>, "Multiply">>, <<<<"/">>, "Divide">> >>
      [] level = "term" -> << <<<<"+">>, "Add">>, <<<<"-">>, "Subtract">> >>
      [] level = "comparison" ->
            << <<<<">", "=">>, "GreaterEqual">>, <<<<">">>, "Greater">>,
               <<<<"<", "=">>, "LessEqual">>, <<<<"<">>, "Less">> >>
      [] level = "equality" ->
            << <<<<"!", "=">>, "NotEqual">>, <<<<"=", "=">>, "Equal">> >>
      [] level = "logical_and" -> << <<<<"a","n","d">>, "And">> >>
      [] level = "logical_or" -> << <<<<"o","r">>, "Or">> >>

\* alt((t1.value(v1), t2.value(v2), ..))
RECURSIVE winnow_alt_values(_, _)
winnow_alt_values(table, i) ==
    IF table = <<>> THEN Backtrack
    ELSE IF StartsWith(i, Head(table)[1])
         THEN Ok(Drop(i, Len(Head(table)[1])), Head(table)[2])
         ELSE winnow_alt_values(Tail(table), i)

RECURSIVE winnow_primary(_, _), winnow_unary(_, _), winnow_operand(_, _, _),
          winnow_repeat_ops(_, _, _, _), winnow_binary_level(_, _, _),
          winnow_assignment(_, _), winnow_expression(_, _)

winnow_primary(b, i) ==
    Bind(winnow_literal(i), LAMBDA l :
        IF l.tag = "Ok" THEN Ok(l.rest, Literal(l.out)) ELSE
    Bind(winnow_identifier(i), LAMBDA v :
        IF v.tag = "Ok" THEN Ok(v.rest, Variable(v.out)) ELSE
    winnow_then(winnow_ws_char_ws(b, "(", i), LAMBDA o :
    winnow_then(winnow_expression(b, o.rest), LAMBDA e :
    winnow_then(winnow_ws_char_ws(b, ")", e.rest), LAMBDA c :
        Ok(c.rest, Grouping(e.out)))))))

\* alt(((alt(('!', '-')), ws, unary), primary)): primary is tried when the
\* tuple backtracks
winnow_unary(b, i) ==
    Bind(winnow_then(winnow_alt_values(<< <<<<"!">>, "Not">>, <<<<"-">>, "Minus">> >>, i),
                     LAMBDA o :
         winnow_then(winnow_ws(b, o.rest), LAMBDA w :
         winnow_then(winnow_unary(b, w.rest), LAMBDA u :
             Ok(u.rest, Unary(o.out, u.out))))),
         LAMBDA t : IF t.tag = "Backtrack" THEN winnow_primary(b, i) ELSE t)

winnow_operand(b, level, i) ==
    IF level = "factor" THEN winnow_unary(b, i)
    ELSE winnow_binary_level(b, LevelBelow(level), i)

\* repeat(0.., (ws, alt(ops), ws, operand)): the pairs <<op, expr>> in order
winnow_repeat_ops(b, level, i, acc) ==
    Bind(winnow_then(winnow_ws(b, i), LAMBDA w :
         winnow_then(winnow_alt_values(winnow_ops(level), w.rest), LAMBDA o :
         winnow_then(winnow_ws(b, o.rest), LAMBDA v :
         winnow_then(winnow_operand(b, level, v.rest), LAMBDA e :
             Ok(e.rest, <<o.out, e.out>>))))),
         LAMBDA t :
            IF t.tag = "Backtrack" THEN Ok(i, acc)
            ELSE IF t.tag # "Ok" THEN t
            ELSE IF Len(t.rest) = Len(i) THEN winnow_assert(b)
            ELSE winnow_repeat_ops(b, level, t.rest, Append(acc, t.out)))

\* factor, term, comparison, equality, logical_and, logical_or
winnow_binary_level(b, level, i) ==
    winnow_then(winnow_operand(b, level, i), LAMBDA init :
    winnow_then(winnow_repeat_ops(b, level, init.rest, <<>>), LAMBDA ops :
        Ok(ops.rest, nom_fold(init.out, ops.out))))

winnow_assignment(b, i) ==
    Bind(winnow_then(winnow_identifier(i), LAMBDA n :
         winnow_then(winnow_ws_char_ws(b, "=", n.rest), LAMBDA q :
         winnow_then(winnow_assignment(b, q.rest), LAMBDA v :
             Ok(v.rest, Assignment(n.out, v.out))))),
         LAMBDA t :
            IF t.tag = "Backtrack" THEN winnow_binary_level(b, "logical_or", i) ELSE t)

winnow_expression(b, i) == winnow_assignment(b, i)

\* (ws, ';')
winnow_semicolon(b, i) ==
    winnow_then(winnow_ws(b, i), LAMBDA w : winnow_literal_tag(<<";">>, w.rest))

winnow_print_stmt(b, i) ==
    winnow_then(winnow_literal_tag(<<"p","r","i","n","t">>, i), LAMBDA p :
    winnow_then(winnow_ws(b, p.rest), LAMBDA w :
    winnow_then(winnow_expression(b, w.rest), LAMBDA e :
    winnow_then(winnow_semicolon(b, e.rest), LAMBDA s :
        Ok(s.rest, StmtPrint(e.out))))))

\* opt((ws, '=', ws, expression))
winnow_opt_initializer(b, i) ==
    Bind(winnow_then(winnow_ws_char_ws(b, "=", i), LAMBDA q : winnow_expression(b, q.rest)),
         LAMBDA t :
            IF t.tag = "Ok" THEN Ok(t.rest, <<t.out>>)
            ELSE IF t.tag = "Backtrack" THEN Ok(i, <<>>)
            ELSE t)

winnow_var_declaration(b, i) ==
    winnow_then(winnow_literal_tag(<<"v","a","r">>, i), LAMBDA v :
    winnow_then(winnow_ws(b, v.rest), LAMBDA w :
    winnow_then(winnow_identifier(w.rest), LAMBDA n :
    winnow_then(winnow_opt_initializer(b, n.rest), LAMBDA o :
    winnow_then(winnow_semicolon(b, o.rest), LAMBDA s :
        Ok(s.rest, StmtVarDeclaration(n.out, o.out)))))))

winnow_expr_stmt(b, i) ==
    winnow_then(winnow_expression(b, i), LAMBDA e :
    winnow_then(winnow_semicolon(b, e.rest), LAMBDA s :
        Ok(s.rest, StmtExpression(e.out))))

\* preceded(ws, alt((print_stmt, var_declaration, expr_stmt)))
winnow_statement(b, i) ==
    winnow_then(winnow_ws(b, i), LAMBDA w :
    Bind(winnow_print_stmt(b, w.rest), LAMBDA p :
        IF p.tag # "Backtrack" THEN p ELSE
    Bind(winnow_var_declaration(b, w.rest), LAMBDA v :
        IF v.tag # "Backtrack" THEN v ELSE winnow_expr_stmt(b, w.rest))))

\* repeat(0.., statement)
RECURSIVE winnow_repeat_statement(_, _, _)
winnow_repeat_statement(b, i, acc) ==
    Bind(winnow_statement(b, i), LAMBDA s :
        IF s.tag = "Backtrack" THEN Ok(i, acc)
        ELSE IF s.tag # "Ok" THEN s
        ELSE IF Len(s.rest) = Len(i) THEN winnow_assert(b)
        ELSE winnow_repeat_statement(b, s.rest, Append(acc, s.out)))

\* terminated(repeat(0.., statement), ws).map(Program::new)
winnow_program(b, i) ==
    winnow_then(winnow_repeat_statement(b, i, <<>>), LAMBDA m :
    winnow_then(winnow_ws(b, m.rest), LAMBDA w : Ok(w.rest, m.out)))

ResultPanic == [status |-> "Panic", statements |-> <<>>, err |-> ""]

\* program.parse(input): Ok when program succeeds on all of the input
winnow_parse_program(b, i) ==
    Bind(winnow_program(b, i), LAMBDA r :
        IF r.tag = "Panic" THEN ResultPanic
        ELSE IF r.tag = "Ok" /\ r.rest = <<>> THEN ResultOk(r.out)
        ELSE ResultErr("ParseError"))

(***************************************************************************)
(* lelwel-lox/src/parser.rs: lex.  A source is a sequence of characters;   *)
(* spans are byte offsets, and the character written "U+00E9" stands for a *)
(* two-byte character.                                                     *)
(***************************************************************************)
Utf8Len(ch) == IF ch = "U+00E9" THEN 2 ELSE 1

\* source.len(): the length in bytes
RECURSIVE ByteLen(_)
ByteLen(s) == IF s = <<>> THEN 0 ELSE Utf8Len(Head(s)) + ByteLen(Tail(s))

\* &source[start..end] for byte offsets on character boundaries
RECURSIVE ByteSlice(_, _, _)
ByteSlice(s, start, end) ==
    IF s = <<>> \/ end <= 0 THEN <<>>
    ELSE IF start > 0 THEN ByteSlice(Tail(s), start - Utf8Len(Head(s)), end - Utf8Len(Head(s)))
    ELSE <<Head(s)>> \o ByteSlice(Tail(s), 0, end - Utf8Len(Head(s)))

\* The tokens of one character
lex_single(ch) ==
    CASE ch = "(" -> "LEFT_PAREN" [] ch = ")" -> "RIGHT_PAREN"
      [] ch = ";" -> "SEMICOLON" [] ch = "+" -> "PLUS"
      [] ch = "-" -> "MINUS" [] ch = "*" -> "STAR"

\* The tokens of `!`, `=`, `>`, `<` alone and followed by `=`
lex_one_or_two(ch, two) ==
    CASE ch = "!" -> IF two THEN "BANG_EQUAL" ELSE "BANG"
      [] ch = "=" -> IF two THEN "EQUAL_EQUAL" ELSE "EQUAL"
      [] ch = ">" -> IF two THEN "GREATER_EQUAL" ELSE "GREATER"
      [] ch = "<" -> IF two THEN "LESS_EQUAL" ELSE "LESS"

\* match text { "true" => TRUE, ..., _ => IDENTIFIER } with every keyword
\* read as a prefix of the text
lex_keyword_prefix(text) ==
    IF StartsWith(text, <<"t","r","u","e">>) THEN "TRUE"
    ELSE IF StartsWith(text, <<"f","a","l","s","e">>) THEN "FALSE"
    ELSE IF StartsWith(text, <<"n","i","l">>) THEN "NIL"
    ELSE IF StartsWith(text, <<"p","r","i","n","t">>) THEN "PRINT"
    ELSE IF StartsWith(text, <<"v","a","r">>) THEN "VAR"
    ELSE IF StartsWith(text, <<"a","n","d">>) THEN "AND"
    ELSE IF StartsWith(text, <<"o","r">>) THEN "OR"
    ELSE "IDENTIFIER"

\* match text { "true" => TRUE, ..., _ => IDENTIFIER }
lex_keyword(text) ==
    CASE text = <<"t","r","u","e">> -> "TRUE"
      [] text = <<"f","a","l","s","e">> -> "FALSE"
      [] text = <<"n","i","l">> -> "NIL"
      [] text = <<"p","r","i","n","t">> -> "PRINT"
      [] text = <<"v","a","r">> -> "VAR"
      [] text = <<"a","n","d">> -> "AND"
      [] text = <<"o","r">> -> "OR"
      [] OTHER -> "IDENTIFIER"

\* The number of characters the string loop takes after the opening quote:
\* up to and including the next `"`, or all of them.
lex_string_len(rest) ==
    IF RunLenNot(rest, {"\""}) = Len(rest) THEN Len(rest)
    ELSE RunLenNot(rest, {"\""}) + 1

\* The comment loop stopping right after the second `/`
lex_comment_len_marker(rest) == 1

\* The comment arm taking the first `/` alone
lex_comment_len_first_slash(rest) == 0

\* The number of characters the comment loop takes from the second `/` on:
\* up to and including the next "\n", or all of them.
lex_comment_len(rest) ==
    IF RunLenNot(rest, {"\n"}) = Len(rest) THEN Len(rest)
    ELSE RunLenNot(rest, {"\n"}) + 1

\* The loop of lex over the characters not yet taken: `rest` starts at byte
\* offset `start`; tokens and spans are the vectors pushed so far.
RECURSIVE lex_loop(_, _, _, _)
lex_loop(rest, start, tokens, spans) ==
    IF rest = <<>> THEN [tokens |-> tokens, spans |-> spans, at |-> start]
    ELSE IF Head(rest) \in {" ", "\t", "\r", "\n"}
    THEN lex_loop(Tail(rest), start + 1, tokens, spans)
    ELSE IF Head(rest) \in {"(", ")", ";", "+", "-", "*"}
    THEN lex_loop(Tail(rest), start + 1,
                  Append(tokens, lex_single(Head(rest))),
                  Append(spans, <<start, start + 1>>))
    ELSE IF Head(rest) = "/"
    THEN IF Len(rest) >= 2 /\ rest[2] = "/"
         THEN lex_loop(Drop(rest, 1 + lex_comment_len(Tail(rest))),
                       start + 1 + ByteLen(Take(Tail(rest), lex_comment_len(Tail(rest)))),
                       tokens, spans)
         ELSE lex_loop(Tail(rest), start + 1,
                       Append(tokens, "SLASH"), Append(spans, <<start, start + 1>>))
    ELSE IF Head(rest) \in {"!", "=", ">", "<"}
    THEN IF Len(rest) >= 2 /\ rest[2] = "="
         THEN lex_loop(Drop(rest, 2), start + 2,
                       Append(tokens, lex_one_or_two(Head(rest), TRUE)),
                       Append(spans, <<start, start + 2>>))
         ELSE lex_loop(Tail(rest), start + 1,
                       Append(tokens, lex_one_or_two(Head(rest), FALSE)),
                       Append(spans, <<start, start + 1>>))
    ELSE IF Head(rest) = "\""
    THEN lex_loop(Drop(rest, 1 + lex_string_len(Tail(rest))),
                  start + 1 + ByteLen(Take(Tail(rest), lex_string_len(Tail(rest)))),
                  Append(tokens, "STRING"),
                  Append(spans, <<start, start + 1
                                     + ByteLen(Take(Tail(rest), lex_string_len(Tail(rest))))>>))
    ELSE IF Head(rest) \in Digit
    THEN lex_loop(Drop(rest, 1 + RunLen(Tail(rest), Digit \cup {"."})),
                  start + 1 + RunLen(Tail(rest), Digit \cup {"."}),
                  Append(tokens, "NUMBER"),
                  Append(spans, <<start, start + 1 + RunLen(Tail(rest), Digit \cup {"."})>>))
    ELSE IF Head(rest) \in Alpha \cup {"_"}
    THEN lex_loop(Drop(rest, 1 + RunLen(Tail(rest), AlphaNumeric \cup {"_"})),
                  start + 1 + RunLen(Tail(rest), AlphaNumeric \cup {"_"}),
                  Append(tokens,
                         lex_keyword(Take(rest, 1 + RunLen(Tail(rest), AlphaNumeric \cup {"_"})))),
                  Append(spans, <<start, start + 1 + RunLen(Tail(rest), AlphaNumeric \cup {"_"})>>))
    ELSE lex_loop(Tail(rest), start + Utf8Len(Head(rest)),
                  Append(tokens, "Error"),
                  Append(spans, <<start, start + Utf8Len(Head(rest))>>))

\* lex without the trailing EOF push
lex_no_eof(source, diags) ==
    [tokens |-> lex_loop(source, 0, <<>>, <<>>).tokens,
     spans  |-> lex_loop(source, 0, <<>>, <<>>).spans,
     diags  |-> diags]

\* lex(source, _diags): the token and span vectors, and diags as lex leaves it
lex(source, diags) ==
    [tokens |-> Append(lex_loop(source, 0, <<>>, <<>>).tokens, "EOF"),
     spans  |-> Append(lex_loop(source, 0, <<>>, <<>>).spans,
                       <<ByteLen(source), ByteLen(source)>>),
     diags  |-> diags]

\* text.parse::<f64>() of convert_primary: [sign] digits [. [digits]] or
\* [sign] . digits, an optional exponent, and nothing after it; or a
\* spelling of nan / infinity.
f64_from_str(text) ==
    IF recognize_float(text).tag = "Ok" /\ recognize_float(text).rest = <<>>
    THEN Ok(<<>>, parse_f64(recognize_float(text).out))
    ELSE IF nom_double(text).tag = "Ok" /\ nom_double(text).rest = <<>>
    THEN Ok(<<>>, nom_double(text).out)
    ELSE Error

\* convert_primary on a NUMBER token: Ok(Literal(Number)) or Err("Invalid number")
convert_primary_number(text) ==
    IF f64_from_str(text).tag = "Ok"
    THEN [status |-> "Ok", expr |-> Literal(f64_from_str(text).out)]
    ELSE [status |-> "Err", err |-> "Invalid number"]

(***************************************************************************)
(* The state: a source text and the Result each parser returned for it.    *)
(***************************************************************************)
MaxIterations == 3

MaxAdded == 2

MaxParsers == 2

(***************************************************************************)
(* lelwel-lox/src/parser.rs: the conversion of the CST to a Program.  A    *)
(* CST node is a rule node with children or a token node with its text;    *)
(* a conversion returns Ok(expr), Err(message) or panics.                  *)
(***************************************************************************)
ConvOk(e) == [status |-> "Ok", expr |-> e]

ConvErr(message) == [status |-> "Err", err |-> message]

ConvPanic == [status |-> "Panic"]

\* cst.match_rule(child, rule)
match_rule(child, rule) == child.kind = "rule" /\ child.name = rule

\* cst.match_token(child, token).is_some()
match_token(child, token) == child.kind = "token" /\ child.name = token

\* The first child of node that is a `rule` node, as <<child>>, or <<>>
first_rule_child(node, rule) ==
    IF \E k \in 1..Len(node.children) : match_rule(node.children[k], rule)
    THEN <<node.children[CHOOSE k \in 1..Len(node.children) :
                /\ match_rule(node.children[k], rule)
                /\ \A j \in 1..(k - 1) : ~match_rule(node.children[j], rule)]>>
    ELSE <<>>

\* b is a character boundary of text
is_char_boundary(text, b) == \E k \in 0..Len(text) : ByteLen(Take(text, k)) = b

\* &text[1..text.len()-1]: <<slice>>, or <<>> where the slice panics
string_content(text) ==
    IF 1 <= ByteLen(text) - 1 /\ is_char_boundary(text, ByteLen(text) - 1)
    THEN <<ByteSlice(text, 1, ByteLen(text) - 1)>>
    ELSE <<>>

RECURSIVE convert_expression(_), convert_assignment(_), convert_logical_or(_),
          convert_logical_and(_), convert_equality(_), convert_comparison(_),
          convert_term(_), convert_factor(_), convert_unary(_),
          convert_primary(_), convert_primary_children(_)

\* The loop of convert_primary over the children not yet looked at
convert_primary_children(children) ==
    IF children = <<>> THEN ConvErr("Invalid primary")
    ELSE Bind(Head(children), LAMBDA child :
        IF match_token(child, "TRUE") THEN ConvOk(Literal(ValueBool(TRUE)))
        ELSE IF match_token(child, "FALSE") THEN ConvOk(Literal(ValueBool(FALSE)))
        ELSE IF match_token(child, "NIL") THEN ConvOk(Literal(ValueNil))
        ELSE IF match_token(child, "NUMBER") THEN convert_primary_number(child.text)
        ELSE IF match_token(child, "STRING")
             THEN IF string_content(child.text) = <<>> THEN ConvPanic
                  ELSE ConvOk(Literal(ValueString(string_content(child.text)[1])))
        ELSE IF match_token(child, "IDENTIFIER") THEN ConvOk(Variable(child.text))
        ELSE IF match_rule(child, "Expression") THEN convert_expression(child)
        ELSE convert_primary_children(Tail(children)))

convert_primary(node) == convert_primary_children(node.children)

convert_unary(node) ==
    IF Len(node.children) = 2
    THEN Bind(convert_unary(node.children[2]), LAMBDA operand :
            IF operand.status # "Ok" THEN operand
            ELSE ConvOk(Unary(IF match_token(node.children[1], "BANG")
                              THEN "Not" ELSE "Minus",
                              operand.expr)))
    ELSE IF first_rule_child(node, "Primary") # <<>>
    THEN convert_primary(first_rule_child(node, "Primary")[1])
    ELSE ConvErr("Invalid unary")

convert_factor(node) ==
    IF Len(node.children) = 3
    THEN Bind(convert_unary(node.children[1]), LAMBDA left :
            IF left.status # "Ok" THEN left ELSE
         Bind(convert_factor(node.children[3]), LAMBDA right :
            IF right.status # "Ok" THEN right
            ELSE ConvOk(Binary(left.expr,
                               IF match_token(node.children[2], "STAR")
                               THEN "Multiply" ELSE "Divide",
                               right.expr))))
    ELSE IF first_rule_child(node, "Unary") # <<>>
    THEN convert_unary(first_rule_child(node, "Unary")[1])
    ELSE ConvErr("Invalid factor")

convert_term(node) ==
    IF Len(node.children) = 3
    THEN Bind(convert_factor(node.children[1]), LAMBDA left :
            IF left.status # "Ok" THEN left ELSE
         Bind(convert_term(node.children[3]), LAMBDA right :
            IF right.status # "Ok" THEN right
            ELSE ConvOk(Binary(left.expr,
                               IF match_token(node.children[2], "PLUS")
                               THEN "Add" ELSE "Subtract",
                               right.expr))))
    ELSE IF first_rule_child(node, "Factor") # <<>>
    THEN convert_factor(first_rule_child(node, "Factor")[1])
    ELSE ConvErr("Invalid term")

convert_comparison(node) ==
    IF first_rule_child(node, "Term") # <<>>
    THEN convert_term(first_rule_child(node, "Term")[1])
    ELSE ConvErr("Invalid comparison")

convert_equality(node) ==
    IF first_rule_child(node, "Comparison") # <<>>
    THEN convert_comparison(first_rule_child(node, "Comparison")[1])
    ELSE ConvErr("Invalid equality")

convert_logical_and(node) ==
    IF first_rule_child(node, "Equality") # <<>>
    THEN convert_equality(first_rule_child(node, "Equality")[1])
    ELSE ConvErr("Invalid logical and")

convert_logical_or(node) ==
    IF first_rule_child(node, "LogicalAnd") # <<>>
    THEN convert_logical_and(first_rule_child(node, "LogicalAnd")[1])
    ELSE ConvErr("Invalid logical or")

convert_assignment(node) ==
    IF first_rule_child(node, "LogicalOr") # <<>>
    THEN convert_logical_or(first_rule_child(node, "LogicalOr")[1])
    ELSE ConvErr("Invalid assignment")

convert_expression(node) ==
    IF first_rule_child(node, "Assignment") # <<>>
    THEN convert_assignment(first_rule_child(node, "Assignment")[1])
    ELSE ConvErr("No expression found")

\* The loop of convert_var_declaration over the children not yet looked at
RECURSIVE convert_var_declaration_children(_, _, _)
convert_var_declaration_children(children, name, initializer) ==
    IF children = <<>>
    THEN IF name = <<>> THEN ConvErr("Missing variable name")
         ELSE ConvOk(StmtVarDeclaration(name[1], initializer))
    ELSE IF match_token(Head(children), "IDENTIFIER")
    THEN convert_var_declaration_children(Tail(children), <<Head(children).text>>,
                                          initializer)
    ELSE IF match_rule(Head(children), "Expression")
    THEN Bind(convert_expression(Head(children)), LAMBDA e :
            IF e.status # "Ok" THEN e
            ELSE convert_var_declaration_children(Tail(children), name, <<e.expr>>))
    ELSE convert_var_declaration_children(Tail(children), name, initializer)

convert_var_declaration(node) ==
    convert_var_declaration_children(node.children, <<>>, <<>>)

\* The loop of convert_statement over the children not yet looked at
RECURSIVE convert_statement_children(_)
convert_statement_children(children) ==
    IF children = <<>> THEN ConvErr("Unknown statement")
    ELSE Bind(Head(children), LAMBDA child :
        IF match_rule(child, "PrintStmt") /\ first_rule_child(child, "Expression") # <<>>
        THEN Bind(convert_expression(first_rule_child(child, "Expression")[1]), LAMBDA e :
                IF e.status # "Ok" THEN e ELSE ConvOk(StmtPrint(e.expr)))
        ELSE IF match_rule(child, "PrintStmt") THEN convert_statement_children(Tail(children))
        ELSE IF match_rule(child, "VarDeclaration") THEN convert_var_declaration(child)
        ELSE IF match_rule(child, "ExpressionStmt")
                /\ first_rule_child(child, "Expression") # <<>>
        THEN Bind(convert_expression(first_rule_child(child, "Expression")[1]), LAMBDA e :
                IF e.status # "Ok" THEN e ELSE ConvOk(StmtExpression(e.expr)))
        ELSE convert_statement_children(Tail(children)))

convert_statement(node) == convert_statement_children(node.children)

\* The loop of convert_cst over the children not yet looked at: the
\* statements pushed, or a panic
RECURSIVE convert_cst_children(_, _)
convert_cst_children(children, statements) ==
    IF children = <<>> THEN ResultOk(statements)
    ELSE IF match_rule(Head(children), "Statement")
    THEN Bind(convert_statement(Head(children)), LAMBDA stmt :
            IF stmt.status = "Panic" THEN ResultPanic
            ELSE IF stmt.status = "Ok"
            THEN convert_cst_children(Tail(children), Append(statements, stmt.expr))
            ELSE convert_cst_children(Tail(children), statements))
    ELSE convert_cst_children(Tail(children), statements)

convert_cst(node) == convert_cst_children(node.children, <<>>)

\* parse_program after Parser::parse returned cst and left diags
lelwel_parse_program(cst, diags) ==
    IF diags # <<>> THEN ResultErr("Parse errors") ELSE convert_cst(cst)

(***************************************************************************)
(* lox-ast/src/lib.rs: Program, a struct with the one field statements     *)
(***************************************************************************)
Program_new(statements) == [statements |-> statements]

Program_statements(self) == self.statements

\* add_statement putting the statement first
Program_add_statement_front(self, stmt) ==
    [self EXCEPT !.statements = <<stmt>> \o self.statements]

\* self.statements.push(stmt)
Program_add_statement(self, stmt) ==
    [self EXCEPT !.statements = Append(self.statements, stmt)]

Program_is_empty(self) == self.statements = <<>>

(***************************************************************************)
(* parser-comparison-simple: parse_with_nom and benchmark_parser.  The     *)
(* Duration of the returned pair is wall-clock time and is left out; calls *)
(* lists the result of each parse_with_nom call of the loop in order.      *)
(***************************************************************************)
\* map_err(|e| format!("{:?}", e)): the Debug text of the error String
DebugString(s) == <<"\"", s, "\"">>

parse_with_nom(i) ==
    Bind(nom_parse_program(i), LAMBDA r :
        IF r.status = "Ok" THEN r ELSE ResultErr(DebugString(r.err)))

\* The loop's successes counter stuck at its first increment
benchmark_parser_saturating(i, iterations) ==
    LET calls == [k \in 1..iterations |-> parse_with_nom(i)]
    IN  [status |-> "Done", iterations |-> iterations, calls |-> calls,
         successes |-> IF \E k \in 1..iterations : calls[k].status = "Ok" THEN 1 ELSE 0]

RECURSIVE benchmark_loop(_, _, _, _)
benchmark_loop(i, remaining, successes, calls) ==
    IF remaining = 0 THEN [successes |-> successes, calls |-> calls]
    ELSE Bind(parse_with_nom(i), LAMBDA r :
            benchmark_loop(i, remaining - 1,
                           IF r.status = "Ok" THEN successes + 1 ELSE successes,
                           Append(calls, r)))

benchmark_parser(i, iterations) ==
    Bind(benchmark_loop(i, iterations, 0, <<>>), LAMBDA b :
        [status |-> "Done", iterations |-> iterations, calls |-> b.calls,
         successes |-> b.successes])

(***************************************************************************)
(* parser-comparison/src/lib.rs: ParseResult, the LoxParser implementations *)
(* and compare_parsers.  An Option is <<>> (None) or <<v>> (Some(v)); the   *)
(* parse times are wall-clock Durations and are left out.                  *)
(***************************************************************************)
ParseResult_success(program) ==
    [success |-> TRUE, program |-> <<program>>, error_message |-> <<>>]

ParseResult_failure(error) ==
    [success |-> FALSE, program |-> <<>>, error_message |-> <<error>>]

\* NomParser::parse and ChumskyParser::parse
LoxParser_parse(parser, i) ==
    Bind(IF parser = "nom" THEN nom_parse_program(i) ELSE chumsky_parse_program(i),
         LAMBDA r :
            IF r.status = "Ok" THEN ParseResult_success(r.statements)
            ELSE ParseResult_failure(DebugString(r.err)))

\* The loop of compare_parsers putting each result before the earlier ones
RECURSIVE compare_loop_prepend(_, _, _, _)
compare_loop_prepend(i, parsers, results, successful_asts) ==
    IF parsers = <<>> THEN [results |-> results, successful_asts |-> successful_asts]
    ELSE Bind(LoxParser_parse(Head(parsers), i), LAMBDA result :
            compare_loop_prepend(i, Tail(parsers),
                         <<[parser_name |-> Head(parsers), result |-> result]>> \o results,
                         IF result.program # <<>>
                         THEN Append(successful_asts, result.program[1])
                         ELSE successful_asts))

\* The loop of compare_parsers over the parsers not yet run
RECURSIVE compare_loop(_, _, _, _)
compare_loop(i, parsers, results, successful_asts) ==
    IF parsers = <<>> THEN [results |-> results, successful_asts |-> successful_asts]
    ELSE Bind(LoxParser_parse(Head(parsers), i), LAMBDA result :
            compare_loop(i, Tail(parsers),
                         Append(results, [parser_name |-> Head(parsers), result |-> result]),
                         IF result.program # <<>>
                         THEN Append(successful_asts, result.program[1])
                         ELSE successful_asts))

\* The first successful Program, whatever the others are
consensus_of_first(successful_asts) ==
    IF successful_asts = <<>> THEN <<>> ELSE <<successful_asts[1]>>

\* "Determine consensus AST (if all successful parsers agree)"
consensus_of(successful_asts) ==
    IF Len(successful_asts) > 1
    THEN IF \A k \in 1..Len(successful_asts) :
                ProgramEq(successful_asts[k], successful_asts[1])
         THEN <<successful_asts[1]>> ELSE <<>>
    ELSE IF Len(successful_asts) = 1 THEN <<successful_asts[1]>>
    ELSE <<>>

successful_count_of(results) ==
    Cardinality({ k \in 1..Len(results) : results[k].result.success })

compare_parsers(i, parsers) ==
    Bind(compare_loop(i, parsers, <<>>, <<>>), LAMBDA l :
    Bind(consensus_of(l.successful_asts), LAMBDA consensus_ast :
    Bind(successful_count_of(l.results), LAMBDA successful_count :
        [status |-> "Done",
         input |-> i,
         results |-> l.results,
         consensus_ast |-> consensus_ast,
         accuracy_summary |->
             [total_parsers |-> Len(l.results),
              successful_parsers |-> successful_count,
              failed_parsers |-> Len(l.results) - successful_count,
              consensus_reached |-> consensus_ast # <<>> /\ successful_count > 1]])))

InitWith(inputs) ==
    /\ input \in inputs
    /\ nomResult = NotRun
    /\ combineResult = NotRun
    /\ chumskyResult = NotRun
    /\ lexed = NotRun
    /\ benchmark = NotRun
    /\ comparison = NotRun
    /\ winnowResult = NotRun
    /\ theProgram = NotRun
    /\ converted = NotRun

\* parse_with_nom(input)
ParseNom ==
    /\ nomResult = NotRun
    /\ nomResult' = nom_parse_program(input)
    /\ UNCHANGED <<input, combineResult, chumskyResult, lexed, benchmark, comparison,
                 winnowResult, theProgram, converted>>

\* combine_lox::parse_program(input)
ParseCombine ==
    /\ combineResult = NotRun
    /\ combineResult' = combine_parse_program(input)
    /\ UNCHANGED <<input, nomResult, chumskyResult, lexed, benchmark, comparison,
                 winnowResult, theProgram, converted>>

\* chumsky_lox::parse_program(input)
ParseChumsky ==
    /\ chumskyResult = NotRun
    /\ chumskyResult' = chumsky_parse_program(input)
    /\ UNCHANGED <<input, nomResult, combineResult, lexed, benchmark, comparison,
                 winnowResult, theProgram, converted>>

\* Parser::parse(input, &mut diags) as far as create_tokens: lex(input, diags)
\* with the empty diags of parse_program
LexLelwel ==
    /\ lexed = NotRun
    /\ lexed' = lex(input, <<>>)
    /\ UNCHANGED <<input, nomResult, combineResult, chumskyResult, benchmark, comparison,
                 winnowResult, theProgram, converted>>

\* benchmark_parser(input, iterations)
Benchmark ==
    /\ benchmark = NotRun
    /\ \E iterations \in 0..MaxIterations :
           benchmark' = benchmark_parser(input, iterations)
    /\ UNCHANGED <<input, nomResult, combineResult, chumskyResult, lexed, comparison,
                 winnowResult, theProgram, converted>>

\* compare_parsers(input, parsers) for a list of up to MaxParsers parsers
Compare ==
    /\ comparison = NotRun
    /\ \E n \in 0..MaxParsers : \E parsers \in [1..n -> {"nom", "chumsky"}] :
           comparison' = compare_parsers(input, parsers)
    /\ UNCHANGED <<input, nomResult, combineResult, chumskyResult, lexed, benchmark,
                 winnowResult, theProgram, converted>>

\* winnow_lox::parse_program(input) in a build with or without debug
\* assertions; ws says what the first call of ws on the input returned
ParseWinnow ==
    /\ winnowResult = NotRun
    /\ \E b \in Builds :
           winnowResult' = [build |-> b, ws |-> winnow_ws(b, input),
                            result |-> winnow_parse_program(b, input)]
    /\ UNCHANGED <<input, nomResult, combineResult, chumskyResult,
                   lexed, benchmark, comparison, theProgram, converted>>

\* The statements a Program is built from here
SomeStmts ==
    { StmtPrint(Literal(ValueNil)),
      StmtExpression(Literal(ValueNumber(FALSE, 1, 0))),
      StmtVarDeclaration(<<"x">>, <<>>) }

\* let mut program = Program::new(v); `new` and `added` record the calls made
ProgramNew ==
    /\ theProgram = NotRun
    /\ \E n \in 0..MaxAdded : \E v \in [1..n -> SomeStmts] :
           theProgram' = [value |-> Program_new(v), new |-> v, added |-> <<>>]
    /\ UNCHANGED <<input, nomResult, combineResult, chumskyResult,
                   lexed, benchmark, comparison, winnowResult, converted>>

\* program.add_statement(s)
AddStatement ==
    /\ theProgram # NotRun
    /\ Len(theProgram.added) < MaxAdded
    /\ \E s \in SomeStmts :
           theProgram' = [theProgram EXCEPT
                             !.value = Program_add_statement(theProgram.value, s),
                             !.added = Append(theProgram.added, s)]
    /\ UNCHANGED <<input, nomResult, combineResult, chumskyResult,
                   lexed, benchmark, comparison, winnowResult, converted>>

NextProgram == ProgramNew \/ AddStatement

\* lelwel_lox::parse_program for a source whose Parser::parse returned
\* input.cst and left input.diags
ConvertCst ==
    /\ converted = NotRun
    /\ converted' = lelwel_parse_program(input.cst, input.diags)
    /\ UNCHANGED <<input, nomResult, combineResult, chumskyResult,
                   lexed, benchmark, comparison, winnowResult, theProgram>>

NextConvert == ConvertCst

NextNom == ParseNom

NextWinnow == ParseWinnow

NextCompare == Compare

NextBenchmark == ParseNom \/ Benchmark

NextLex == LexLelwel

NextExpr == ParseNom \/ ParseCombine \/ ParseChumsky

(***************************************************************************)
(* Source texts: tokens joined by single spaces                            *)
(***************************************************************************)
RECURSIVE Join(_)
Join(toks) ==
    IF toks = <<>> THEN <<>>
    ELSE IF Len(toks) = 1 THEN Head(toks)
    ELSE Head(toks) \o <<" ">> \o Join(Tail(toks))

\* The words of a text between single spaces.
RECURSIVE Words(_)
Words(i) ==
    IF i = <<>> THEN <<>>
    ELSE LET n == RunLenNot(i, {" "}) IN
         <<Take(i, n)>> \o Words(Drop(i, n + 1))

BinaryOps == {"Multiply", "Divide", "Add", "Subtract", "Greater", "GreaterEqual",
              "Less", "LessEqual", "Equal", "NotEqual", "And", "Or"}

\* Display for BinaryOp
OpText(op) ==
    CASE op = "Add" -> <<"+">> [] op = "Subtract" -> <<"-">>
      [] op = "Multiply" -> <<"*">> [] op = "Divide" -> <<"/">>
      [] op = "Greater" -> <<">">> [] op = "GreaterEqual" -> <<">", "=">>
      [] op = "Less" -> <<"<">> [] op = "LessEqual" -> <<"<", "=">>
      [] op = "Equal" -> <<"=", "=">> [] op = "NotEqual" -> <<"!", "=">>
      [] op = "And" -> <<"a","n","d">> [] op = "Or" -> <<"o","r">>

OpOfText(t) == CHOOSE op \in BinaryOps : OpText(op) = t

\* The precedence tier of a binary operator, loosest first.
Tier(op) ==
    CASE op = "Or" -> 1 [] op = "And" -> 2
      [] op \in {"Equal", "NotEqual"} -> 3
      [] op \in {"Greater", "GreaterEqual", "Less", "LessEqual"} -> 4
      [] op \in {"Add", "Subtract"} -> 5
      [] op \in {"Multiply", "Divide"} -> 6

Num(n) == Literal(ValueNumber(FALSE, n, 0))

\* The operands the source texts are built from, with the node each denotes.
Leaves ==
    { <<<<"1">>, Num(1)>>, <<<<"2">>, Num(2)>>, <<<<"3">>, Num(3)>>,
      <<<<"4">>, Num(4)>>, <<<<"8">>, Num(8)>>,
      <<<<"a">>, Variable(<<"a">>)>>, <<<<"b">>, Variable(<<"b">>)>>,
      <<<<"c">>, Variable(<<"c">>)>>, <<<<"x">>, Variable(<<"x">>)>>,
      <<<<"y">>, Variable(<<"y">>)>>, <<<<"z">>, Variable(<<"z">>)>>,
      <<<<"t","r","u","e">>, Literal(ValueBool(TRUE))>>,
      <<<<"n","i","l">>, Literal(ValueNil)>>,
      <<<<"\"","s","\"">>, Literal(ValueString(<<"s">>))>> }

LeafOf(t) == (CHOOSE l \in Leaves : l[1] = t)[2]

\* operand op operand ... op operand ";" as one statement
ChainSource(operands, ops) ==
    Join([k \in 1..(Len(operands) + Len(ops)) |->
            IF k % 2 = 1 THEN operands[(k + 1) \div 2] ELSE OpText(ops[k \div 2])])
    \o <<";">>

\* The operand texts and the operators of a chain source
ChainOperands(i) ==
    LET w == Words(Take(i, Len(i) - 1)) IN
    [k \in 1..((Len(w) + 1) \div 2) |-> w[2 * k - 1]]

ChainOps(i) ==
    LET w == Words(Take(i, Len(i) - 1)) IN
    [k \in 1..(Len(w) \div 2) |-> OpOfText(w[2 * k])]

\* All sequences over S of length lo..hi
SeqsOf(S, lo, hi) == UNION { [1..n -> S] : n \in lo..hi }

(***************************************************************************)
(* Precedence (C1)                                                         *)
(***************************************************************************)
MaxOps == 2

\* The operands a chain may hold at its k-th place
OperandAt(k) ==
    CASE k = 1 -> {<<"1">>, <<"a">>}
      [] k = 2 -> {<<"2">>, <<"b">>}
      [] k = 3 -> {<<"3">>, <<"t","r","u","e">>}
      [] OTHER -> {<<"4">>, <<"x">>}

ChainOperandSeqs(n) == { f \in [1..n -> UNION { OperandAt(k) : k \in 1..n }] :
                            \A k \in 1..n : f[k] \in OperandAt(k) }

PrecInputs ==
    UNION { { ChainSource(operands, ops) :
                operands \in ChainOperandSeqs(n + 1), ops \in [1..n -> BinaryOps] } :
            n \in 0..MaxOps }

InitPrec == InitWith(PrecInputs)

SpecPrec == InitPrec /\ [][NextNom]_vars

\* The index of the operator a chain splits at: the last one of the loosest tier.
SplitAt(ops) ==
    CHOOSE k \in 1..Len(ops) :
        /\ \A j \in 1..Len(ops) : Tier(ops[k]) <= Tier(ops[j])
        /\ \A j \in (k + 1)..Len(ops) : Tier(ops[k]) < Tier(ops[j])

RECURSIVE PrecTree(_, _)
PrecTree(leaves, ops) ==
    IF ops = <<>> THEN leaves[1]
    ELSE LET k == SplitAt(ops) IN
         Binary(PrecTree(SubSeq(leaves, 1, k), SubSeq(ops, 1, k - 1)),
                ops[k],
                PrecTree(SubSeq(leaves, k + 1, Len(leaves)), SubSeq(ops, k + 1, Len(ops))))

ChainLeaves(i) == [k \in 1..Len(ChainOperands(i)) |-> LeafOf(ChainOperands(i)[k])]

\* C1: nom-lox parses every parenthesis-free operator chain over literals and
\* identifiers to exactly one Expression statement whose tree nests the
\* operators by the six precedence tiers (`*` `/` tightest, `or` loosest).
C1_Precedence ==
    nomResult # NotRun =>
        nomResult = ResultOk(<<StmtExpression(PrecTree(ChainLeaves(input), ChainOps(input)))>>)

OnePlusTwoTimesThree == <<"1", " ", "+", " ", "2", " ", "*", " ", "3", ";">>

C1_Witness ==
    /\ input = OnePlusTwoTimesThree
    /\ nomResult = ResultOk(<<StmtExpression(
                       Binary(Num(1), "Add", Binary(Num(2), "Multiply", Num(3))))>>)

(***************************************************************************)
(* Left-associativity (C2)                                                 *)
(***************************************************************************)
AssocOperands == {<<"8">>, <<"4">>, <<"2">>, <<"a">>}

SameTier(ops) == \A j, k \in 1..Len(ops) : Tier(ops[j]) = Tier(ops[k])

AssocInputs ==
    UNION { { ChainSource(operands, ops) :
                operands \in [1..(n + 1) -> AssocOperands],
                ops \in { o \in [1..n -> BinaryOps] : SameTier(o) } } :
            n \in 1..MaxOps }

InitAssoc == InitWith(AssocInputs)

SpecAssoc == InitAssoc /\ [][NextNom]_vars

\* ((l1 op1 l2) op2 l3) ... : the last operator is the root.
RECURSIVE LeftDeep(_, _)
LeftDeep(leaves, ops) ==
    IF ops = <<>> THEN leaves[1]
    ELSE Binary(LeftDeep(SubSeq(leaves, 1, Len(ops)), SubSeq(ops, 1, Len(ops) - 1)),
                ops[Len(ops)],
                leaves[Len(leaves)])

\* (l1 op1 (l2 op2 l3 ...)) : the first operator is the root.
RECURSIVE RightDeep(_, _)
RightDeep(leaves, ops) ==
    IF ops = <<>> THEN leaves[1]
    ELSE Binary(leaves[1], ops[1], RightDeep(Tail(leaves), Tail(ops)))

\* C2: nom-lox parses a chain of operators of one precedence level to the
\* left-deep tree Binary{op2, Binary{op1, a, b}, c}, never to the right-nested one.
C2_LeftAssociative ==
    nomResult # NotRun =>
        /\ nomResult = ResultOk(<<StmtExpression(LeftDeep(ChainLeaves(input), ChainOps(input)))>>)
        /\ (Len(ChainOps(input)) >= 2 =>
                nomResult.statements[1].kids[1] #
                    RightDeep(ChainLeaves(input), ChainOps(input)))

EightMinusFourMinusTwo == <<"8", " ", "-", " ", "4", " ", "-", " ", "2", ";">>

C2_Witness ==
    /\ input = EightMinusFourMinusTwo
    /\ nomResult = ResultOk(<<StmtExpression(
            Binary(Binary(Num(8), "Subtract", Num(4)), "Subtract", Num(2)))>>)

(***************************************************************************)
(* Right-associative assignment (C3)                                       *)
(***************************************************************************)
MaxTargets == 3

AssignNames == {<<"x">>, <<"y">>, <<"z">>}

\* The assigned expression: a chain of at most one operator.
AssignValues ==
    { ChainSource(<<l>>, <<>>) : l \in {<<"3">>, <<"a">>, <<"n","i","l">>} }
    \cup { ChainSource(<<l, r>>, <<o>>) :
             l \in {<<"a">>, <<"1">>}, r \in {<<"2">>, <<"b">>},
             o \in {"Add", "Multiply", "Less", "Equal", "Or", "And"} }

\* x1 = x2 = ... = xn = e;
AssignSource(names, value) ==
    Concat([k \in 1..Len(names) |-> names[k] \o <<" ", "=", " ">>]) \o value

AssignInputs ==
    UNION { { AssignSource(names, v) : names \in [1..n -> AssignNames], v \in AssignValues } :
            n \in 1..MaxTargets }

InitAssign == InitWith(AssignInputs)

SpecAssign == InitAssign /\ [][NextNom]_vars

\* The number of leading "name =" pairs of an assignment source
RECURSIVE TargetCount(_)
TargetCount(w) ==
    IF Len(w) >= 2 /\ w[2] = <<"=">> THEN 1 + TargetCount(Drop(w, 2)) ELSE 0

AssignTargets(i) ==
    LET w == Words(i) IN [k \in 1..TargetCount(w) |-> w[2 * k - 1]]

AssignValueText(i) == Join(Drop(Words(i), 2 * TargetCount(Words(i))))

RECURSIVE AssignNest(_, _)
AssignNest(names, e) ==
    IF names = <<>> THEN e ELSE Assignment(Head(names), AssignNest(Tail(names), e))

\* C3: nom-lox parses x1 = x2 = ... = xn = e; without error to one Expression
\* statement Assignment{x1, Assignment{x2, ... Assignment{xn, e}}}.
C3_AssignmentRightAssociative ==
    nomResult # NotRun =>
        nomResult = ResultOk(<<StmtExpression(
            AssignNest(AssignTargets(input),
                       PrecTree(ChainLeaves(AssignValueText(input)),
                                ChainOps(AssignValueText(input)))))>>)

C3_Witness ==
    /\ input = <<"x", " ", "=", " ", "y", " ", "=", " ", "3", ";">>
    /\ nomResult = ResultOk(<<StmtExpression(
            Assignment(<<"x">>, Assignment(<<"y">>, Num(3))))>>)

(***************************************************************************)
(* The operand of a unary operator (C4)                                    *)
(***************************************************************************)
MaxUnary == 2

UnaryOps == {"Not", "Minus"}

UnaryOpText(u) == IF u = "Not" THEN <<"!">> ELSE <<"-">>

UnaryOperands == { <<"t","r","u","e">>, <<"a">>, <<"1">> }

\* What follows the unary expression: nothing, or a binary operator and an operand
UnaryTails ==
    { <<>> } \cup { <<op, r>> : op \in {"Add", "Multiply"}, r \in {<<"b">>, <<"2">>} }

\* u1 u2 ... operand [op operand] ";", as in !!true; and -a + b;
UnarySource(us, p, tail) ==
    Concat([k \in 1..Len(us) |-> UnaryOpText(us[k])]) \o p
    \o (IF tail = <<>> THEN <<>> ELSE <<" ">> \o OpText(tail[1]) \o <<" ">> \o tail[2])
    \o <<";">>

RECURSIVE UnaryNest(_, _)
UnaryNest(us, e) ==
    IF us = <<>> THEN e ELSE Unary(Head(us), UnaryNest(Tail(us), e))

\* The tree of a unary operand parsed at the unary level
UnaryTree(us, p, tail) ==
    IF tail = <<>> THEN UnaryNest(us, LeafOf(p))
    ELSE Binary(UnaryNest(us, LeafOf(p)), tail[1], LeafOf(tail[2]))

UnaryCases ==
    { [src |-> UnarySource(us, p, t), tree |-> UnaryTree(us, p, t)] :
        us \in SeqsOf(UnaryOps, 1, MaxUnary), p \in UnaryOperands, t \in UnaryTails }

UnaryInputs == { c.src : c \in UnaryCases }

InitUnary == InitWith(UnaryInputs)

SpecUnary == InitUnary /\ [][NextExpr]_vars

UnaryExpected(i) ==
    ResultOk(<<StmtExpression((CHOOSE c \in UnaryCases : c.src = i).tree)>>)

\* C4: in nom-lox, chumsky-lox and combine-lox the operand of a unary `!` or
\* `-` is parsed at the unary level: stacked operators nest and a unary
\* operator binds tighter than every binary operator.
C4_UnaryOperandLevel ==
    /\ nomResult # NotRun => nomResult = UnaryExpected(input)
    /\ chumskyResult # NotRun => chumskyResult = UnaryExpected(input)
    /\ combineResult # NotRun => combineResult = UnaryExpected(input)

\* nom-lox alone parses the operand at the unary level.
C4_NomUnaryOperandLevel ==
    nomResult # NotRun => nomResult = UnaryExpected(input)

\* chumsky-lox nests stacked operators, and takes a whole expression as operand.
C4_ChumskyStackedNest ==
    (chumskyResult # NotRun /\ input[Len(input) - 1] \notin {"b", "2"}) =>
        chumskyResult = UnaryExpected(input)

\* combine-lox binds a single unary operator tighter than the binary one.
C4_CombineSingleBindsTighter ==
    (combineResult # NotRun /\ input[2] \notin {"!", "-"}) =>
        combineResult = UnaryExpected(input)

(***************************************************************************)
(* Parenthesized expressions (C5)                                          *)
(***************************************************************************)
MaxNesting == 1

GroupOps == {"Add", "Subtract", "Multiply"}

\* e inside n pairs of parentheses, and its tree inside n Grouping nodes
RECURSIVE ParenSource(_, _)
ParenSource(n, e) ==
    IF n = 0 THEN e ELSE <<"(">> \o ParenSource(n - 1, e) \o <<")">>

RECURSIVE GroupNest(_, _)
GroupNest(n, e) == IF n = 0 THEN e ELSE Grouping(GroupNest(n - 1, e))

\* (l op1 r) op2 x;   x op2 (l op1 r);   (x);
GroupCases ==
    UNION { { [src  |-> ParenSource(n, l \o <<" ">> \o OpText(o1) \o <<" ">> \o <<"2">>)
                        \o <<" ">> \o OpText(o2) \o <<" ", "3", ";">>,
               tree |-> Binary(GroupNest(n, Binary(LeafOf(l), o1, Num(2))), o2, Num(3))],
              [src  |-> <<"3", " ">> \o OpText(o2) \o <<" ">>
                        \o ParenSource(n, l \o <<" ">> \o OpText(o1) \o <<" ">> \o <<"2">>)
                        \o <<";">>,
               tree |-> Binary(Num(3), o2, GroupNest(n, Binary(LeafOf(l), o1, Num(2))))],
              [src  |-> ParenSource(n, l) \o <<";">>,
               tree |-> GroupNest(n, LeafOf(l))] } :
            n \in 1..MaxNesting, l \in {<<"1">>, <<"4">>}, o1 \in GroupOps, o2 \in GroupOps }

GroupInputs == { c.src : c \in GroupCases }

InitGroup == InitWith(GroupInputs)

NextGroup == ParseNom \/ ParseCombine

SpecGroup == InitGroup /\ [][NextGroup]_vars

GroupExpected(i) ==
    ResultOk(<<StmtExpression((CHOOSE c \in GroupCases : c.src = i).tree)>>)

OnePlusTwoInParensTimesThree ==
    <<"(", "1", " ", "+", " ", "2", ")", " ", "*", " ", "3", ";">>

\* C5: nom-lox and combine-lox represent a parenthesized expression as
\* Grouping around the inner expression, so they return structurally equal
\* Programs for a source with parentheses that both accept.
C5_GroupingPreserved ==
    /\ nomResult # NotRun => nomResult = GroupExpected(input)
    /\ combineResult # NotRun => combineResult = GroupExpected(input)
    /\ (nomResult.status = "Ok" /\ combineResult.status = "Ok") =>
            ResultEq(nomResult, combineResult)

\* nom-lox alone keeps every pair of parentheses as a Grouping node.
C5_NomGrouping ==
    nomResult # NotRun => nomResult = GroupExpected(input)

\* combine-lox returns the tree with every Grouping node left out.
RECURSIVE Ungrouped(_)
Ungrouped(e) ==
    IF e.kind = "Grouping" THEN Ungrouped(e.kids[1])
    ELSE Node(e.kind, e.op, e.name, e.value,
              [k \in 1..Len(e.kids) |-> Ungrouped(e.kids[k])])

C5_CombineDropsGrouping ==
    combineResult # NotRun =>
        combineResult = ResultOk(<<Ungrouped(GroupExpected(input).statements[1])>>)

(***************************************************************************)
(* Reserved words (C6)                                                     *)
(***************************************************************************)
Keywords == { <<"t","r","u","e">>, <<"f","a","l","s","e">>, <<"n","i","l">>,
              <<"p","r","i","n","t">>, <<"v","a","r">>, <<"a","n","d">>, <<"o","r">> }

MaxWords == 3

ReservedWords == Keywords \cup { <<"x">>, <<"=">>, <<"4","2">> }

\* One statement of at most MaxWords words, closed by ";"
ReservedInputs ==
    { Join(w) \o <<";">> : w \in SeqsOf(ReservedWords, 1, MaxWords) }

InitReserved == InitWith(ReservedInputs)

SpecReserved == InitReserved /\ [][NextNom]_vars

\* The names a node and its subtrees bind or refer to
RECURSIVE NamesOf(_)
NamesOf(n) ==
    (IF n.kind \in {"Variable", "Assignment", "VarDeclaration"} THEN {n.name} ELSE {})
    \cup UNION { NamesOf(n.kids[k]) : k \in 1..Len(n.kids) }

ProgramNames(p) == UNION { NamesOf(p[k]) : k \in 1..Len(p) }

VarEquals42 == <<"v","a","r"," ","=", " ", "4","2",";">>

PrintSemicolon == <<"p","r","i","n","t",";">>

\* C6: nom-lox rejects `var = 42;` and `print;`, and no Program it returns
\* names a reserved word in a Variable, an Assignment or a VarDeclaration.
C6_ReservedWordsRejected ==
    nomResult # NotRun =>
        /\ (input \in {VarEquals42, PrintSemicolon} => nomResult.status = "Err")
        /\ ProgramNames(nomResult.statements) \cap Keywords = {}

(***************************************************************************)
(* Keyword prefixes (C7)                                                   *)
(***************************************************************************)
MaxSuffix == 2

SuffixChars == {"e", "r", "x", "1", "_"}

\* A keyword followed by 1..MaxSuffix identifier characters: one identifier
KeywordPrefixed ==
    { k \o suf : k \in Keywords, suf \in SeqsOf(SuffixChars, 1, MaxSuffix) }

KeywordInputs ==
    { w \o <<";">> : w \in KeywordPrefixed }
    \cup { <<"a", " ">> \o w \o <<";">> : w \in KeywordPrefixed }

InitKeyword == InitWith(KeywordInputs)

SpecKeyword == InitKeyword /\ [][NextNom]_vars

\* C7: a maximal run of letters, digits and `_` that only begins with a keyword
\* is one identifier: `printer;` is Expression(Variable("printer")), and two
\* identifiers in a row (`a orb;`) are rejected.
C7_KeywordPrefixIsIdentifier ==
    nomResult # NotRun =>
        IF Take(input, 2) = <<"a", " ">>
        THEN nomResult.status = "Err"
        ELSE nomResult = ResultOk(<<StmtExpression(Variable(Take(input, Len(input) - 1)))>>)

(***************************************************************************)
(* Programs of whole statements (C8, C9, C10)                              *)
(***************************************************************************)
\* Well-formed statements, one space between any two tokens
GoodStatements ==
    { <<"1"," ","+"," ","2"," ",";">>,
      <<"p","r","i","n","t"," ","4","2"," ",";">>,
      <<"p","r","i","n","t"," ","\"","h","i","\""," ",";">>,
      <<"v","a","r"," ","x"," ","="," ","1"," ",";">>,
      <<"v","a","r"," ","y"," ",";">>,
      <<"x"," ","="," ","(", " ","a"," ","<"," ","2"," ",")"," ",";">>,
      <<"!"," ","t","r","u","e"," ","o","r"," ","-"," ","b"," ",";">> }

\* Statements no continuation makes well-formed
BadClosed ==
    { <<"3"," ","+"," ",";">>, <<"1"," ","2"," ",";">>, <<"("," ","1"," ",";">> }

\* Statements that stop before their `;`, which only end a source here
BadOpen == { <<"p","r","i","n","t"," ","4","2">>, <<"3"," ","+">> }

MaxStatements == 2

RECURSIVE JoinWith(_, _)
JoinWith(parts, sep) ==
    IF parts = <<>> THEN <<>>
    ELSE IF Len(parts) = 1 THEN Head(parts)
    ELSE Head(parts) \o sep \o JoinWith(Tail(parts), sep)

\* The parts of a text between occurrences of the character sep
RECURSIVE SplitOn(_, _)
SplitOn(i, sep) ==
    LET n == RunLenNot(i, {sep}) IN
    IF n = Len(i) THEN <<i>> ELSE <<Take(i, n)>> \o SplitOn(Drop(i, n + 1), sep)

\* Sources of 1..MaxStatements statements, one per line; only the last may be open.
StatementInputs ==
    UNION { { JoinWith(front \o <<last>>, <<"\n">>) :
                front \in [1..(n - 1) -> GoodStatements \cup BadClosed],
                last \in GoodStatements \cup BadClosed \cup BadOpen } :
            n \in 1..MaxStatements }

InitStatements == InitWith(StatementInputs)

SpecStatements == InitStatements /\ [][NextNom]_vars

\* C10: nom-lox returns Ok only when every statement of the source is
\* well-formed and closed by `;`, then with one Stmt per statement; if any
\* statement is malformed or open the result is Err and carries no statements.
C10_WholeOrNothing ==
    nomResult # NotRun =>
        LET stmts == SplitOn(input, "\n") IN
        /\ nomResult.status = "Ok" <=> \A k \in 1..Len(stmts) : stmts[k] \in GoodStatements
        /\ nomResult.status = "Ok" => Len(nomResult.statements) = Len(stmts)
        /\ nomResult.status = "Err" => nomResult.statements = <<>>

\* `1 + 2 ;` then `3 +`: the first statement parses, the second does not.
C10_Witness ==
    /\ input = <<"1"," ","+"," ","2"," ",";","\n","3"," ","+">>
    /\ nomResult.status = "Err"
    /\ nomResult.statements = <<>>
    /\ nom_program(input).tag = "Ok"
    /\ Len(nom_program(input).out) = 1


\* What may be put between two tokens: runs of space/tab/CR/LF, a line comment
Fillers ==
    { <<" ">>, <<"\t">>, <<"\r", "\n">>, <<"\n", " ", "\t">>,
      <<"/", "/", " ", "c", "\n">> }

BlankFillers == { f \in Fillers : \A k \in 1..Len(f) : f[k] \in Multispace }

\* The places between two tokens of a source whose tokens are spaced out
Boundaries(i) == { k \in 1..Len(i) : i[k] \in Multispace }

InsertAt(i, k, f) == Take(i, k) \o f \o Drop(i, k)

\* C8: for every source nom-lox accepts and every place between two of its
\* tokens, putting a `// comment\n` or a run of space/tab/CR/LF there yields
\* Ok with a structurally equal Program.
C8_CommentWhitespaceInvariant ==
    nomResult.status = "Ok" =>
        \A k \in Boundaries(input) : \A f \in Fillers :
            ResultEq(nom_parse_program(InsertAt(input, k, f)), nomResult)

\* The same for runs of space/tab/CR/LF alone.
C8_BlankInvariant ==
    nomResult.status = "Ok" =>
        \A k \in Boundaries(input) : \A f \in BlankFillers :
            ResultEq(nom_parse_program(InsertAt(input, k, f)), nomResult)

(***************************************************************************)
(* A comment that ends the source (C9)                                     *)
(***************************************************************************)
PrintHello == <<"p","r","i","n","t"," ","\"","h","e","l","l","o","\"",";">>

CommentBases ==
    { PrintHello }
    \cup UNION { { JoinWith(ss, <<" ">>) : ss \in [1..n -> GoodStatements] } :
                 n \in 1..MaxStatements }

\* `// text`, with and without the newline that ends it
CommentTails ==
    { <<" ", "/", "/", " ", "c", "o", "m", "m", "e", "n", "t">>,
      <<"/", "/">>,
      <<"/", "/", "c">>,
      <<" ", "/", "/", " ", "c", "\n">> }

CommentInputs == { b \o t : b \in CommentBases, t \in CommentTails }

InitComment == InitWith(CommentInputs)

SpecComment == InitComment /\ [][NextNom]_vars

\* The index of the first `//` of a text, or 0
RECURSIVE FindComment(_, _)
FindComment(i, k) ==
    IF k >= Len(i) THEN 0
    ELSE IF i[k] = "/" /\ i[k + 1] = "/" THEN k
    ELSE FindComment(i, k + 1)

BeforeComment(i) == Take(i, FindComment(i, 1) - 1)

\* C9: appending `// text` with no newline to a source nom-lox accepts leaves
\* the Program unchanged; `print "hello"; // comment` is Ok with 1 statement.
C9_TrailingCommentSkipped ==
    nomResult # NotRun =>
        /\ ResultEq(nomResult, nom_parse_program(BeforeComment(input)))
        /\ (BeforeComment(input) = PrintHello \o <<" ">> =>
                nomResult.status = "Ok" /\ Len(nomResult.statements) = 1)

(***************************************************************************)
(* When nom-lox reads an assignment (C11)                                  *)
(***************************************************************************)
MaxGap == 1

\* Runs of 0..MaxGap spaces
Gaps == SeqsOf({" "}, 0, MaxGap)

\* Left sides with the node each denotes; only the first two are bare identifiers
CommitLefts ==
    { [src |-> <<"x">>, tree |-> Variable(<<"x">>), bare |-> TRUE],
      [src |-> <<"a","b","1">>, tree |-> Variable(<<"a","b","1">>), bare |-> TRUE],
      [src |-> <<"a"," ","+"," ","b">>,
       tree |-> Binary(Variable(<<"a">>), "Add", Variable(<<"b">>)), bare |-> FALSE],
      [src |-> <<"(","a",")">>, tree |-> Grouping(Variable(<<"a">>)), bare |-> FALSE],
      [src |-> <<"1">>, tree |-> Num(1), bare |-> FALSE],
      [src |-> <<"-","x">>, tree |-> Unary("Minus", Variable(<<"x">>)), bare |-> FALSE],
      [src |-> <<"\"","s","\"">>, tree |-> Literal(ValueString(<<"s">>)), bare |-> FALSE] }

\* Right sides with the node each denotes
CommitRights ==
    { [src |-> <<"1">>, tree |-> Num(1)],
      [src |-> <<"c">>, tree |-> Variable(<<"c">>)],
      [src |-> <<"2"," ","*"," ","c">>,
       tree |-> Binary(Num(2), "Multiply", Variable(<<"c">>))] }

\* left;  left == right;  left = right;  left = y = right;  left = = right;
\* with the parse the claim gives each (ok = FALSE: rejected)
CommitCases ==
    { [src |-> l.src \o <<";">>, ok |-> TRUE, tree |-> l.tree, form |-> "plain"] :
        l \in CommitLefts }
    \cup { [src |-> l.src \o g \o <<"=","=">> \o g \o r.src \o <<";">>, ok |-> TRUE,
            tree |-> Binary(l.tree, "Equal", r.tree), form |-> "equal"] :
            l \in CommitLefts, r \in CommitRights, g \in Gaps }
    \cup { [src |-> l.src \o g \o <<"=">> \o g \o r.src \o <<";">>, ok |-> l.bare,
            tree |-> Assignment(l.src, r.tree), form |-> "assign"] :
            l \in CommitLefts, r \in CommitRights, g \in Gaps }
    \cup { [src |-> l.src \o g \o <<"=">> \o g \o <<"y">> \o g \o <<"=">> \o g \o r.src \o <<";">>,
            ok |-> l.bare,
            tree |-> Assignment(l.src, Assignment(<<"y">>, r.tree)), form |-> "assign"] :
            l \in CommitLefts, r \in CommitRights, g \in Gaps }
    \cup { [src |-> l.src \o g \o <<"="," ","=">> \o g \o r.src \o <<";">>, ok |-> FALSE,
            tree |-> l.tree, form |-> "split"] :
            l \in CommitLefts, r \in CommitRights, g \in Gaps }

CommitInputs == { c.src : c \in CommitCases }

InitCommit == InitWith(CommitInputs)

SpecCommit == InitCommit /\ [][NextNom]_vars

\* The names of the Assignment nodes of a node and its subtrees
RECURSIVE AssignedNames(_)
AssignedNames(n) ==
    (IF n.kind = "Assignment" THEN {n.name} ELSE {})
    \cup UNION { AssignedNames(n.kids[k]) : k \in 1..Len(n.kids) }

\* C11: nom-lox reads an assignment only when an identifier is followed by a
\* single `=`: `x == 1;` is Binary{Equal, x, 1}, `x;` is Variable(x), the
\* target of every Assignment is a bare identifier, and a `=` after anything
\* else (`a + b = c;`, `(a) = 3;`, `1 = 2;`) is rejected with Err.
C11_AssignmentCommit ==
    nomResult # NotRun =>
        \A c \in CommitCases : c.src = input =>
            /\ (c.ok => ResultEq(nomResult, ResultOk(<<StmtExpression(c.tree)>>)))
            /\ (~c.ok => nomResult.status = "Err")
            /\ \A k \in 1..Len(nomResult.statements) :
                   AssignedNames(nomResult.statements[k])
                       \subseteq { l.src : l \in { m \in CommitLefts : m.bare } } \cup {<<"y">>}

\* `x == 1;` read as an equality
C11_Witness ==
    /\ input = <<"x"," ","=","="," ","1",";">>
    /\ nomResult = ResultOk(<<StmtExpression(Binary(Variable(<<"x">>), "Equal", Num(1)))>>)

(***************************************************************************)
(* One Stmt per statement, in order (C12)                                  *)
(***************************************************************************)
MaxProgram == 4

\* The statements of `var a = 10; var b = 20; var sum = a + b; print sum;`
\* with the Stmt each denotes
ProgramStatements ==
    { [src |-> <<"v","a","r"," ","a"," ","="," ","1","0",";">>,
       tree |-> StmtVarDeclaration(<<"a">>, <<Num(10)>>)],
      [src |-> <<"v","a","r"," ","b"," ","="," ","2","0",";">>,
       tree |-> StmtVarDeclaration(<<"b">>, <<Num(20)>>)],
      [src |-> <<"v","a","r"," ","s","u","m"," ","="," ","a"," ","+"," ","b",";">>,
       tree |-> StmtVarDeclaration(<<"s","u","m">>,
                    <<Binary(Variable(<<"a">>), "Add", Variable(<<"b">>))>>)],
      [src |-> <<"p","r","i","n","t"," ","s","u","m",";">>,
       tree |-> StmtPrint(Variable(<<"s","u","m">>))] }

\* Programs of 1..MaxProgram of these statements, in any order
ProgramSeqs == SeqsOf(ProgramStatements, 1, MaxProgram)

ProgramSource(ss) == JoinWith([k \in 1..Len(ss) |-> ss[k].src], <<" ">>)

ProgramInputs == { ProgramSource(ss) : ss \in ProgramSeqs }

InitProgram == InitWith(ProgramInputs)

SpecProgram == InitProgram /\ [][NextNom]_vars

TenTwentySumPrint ==
    <<"v","a","r"," ","a"," ","="," ","1","0",";"," ",
      "v","a","r"," ","b"," ","="," ","2","0",";"," ",
      "v","a","r"," ","s","u","m"," ","="," ","a"," ","+"," ","b",";"," ",
      "p","r","i","n","t"," ","s","u","m",";">>

\* C12: nom-lox returns exactly one Stmt per `;`-terminated statement of an
\* accepted source, in textual order: statement k of the Program is the parse
\* of the k-th statement of the source.
C12_OneStmtPerStatement ==
    nomResult # NotRun =>
        \A ss \in ProgramSeqs : ProgramSource(ss) = input =>
            /\ nomResult.status = "Ok"
            /\ Len(nomResult.statements) = Len(ss)
            /\ \A k \in 1..Len(ss) : NodeEq(nomResult.statements[k], ss[k].tree)

\* The four statements of the example: the first declares a as 10, the
\* fourth prints sum.
C12_Witness ==
    /\ input = TenTwentySumPrint
    /\ nomResult.status = "Ok"
    /\ Len(nomResult.statements) = 4
    /\ nomResult.statements[1] = StmtVarDeclaration(<<"a">>, <<Num(10)>>)
    /\ nomResult.statements[4] = StmtPrint(Variable(<<"s","u","m">>))

(***************************************************************************)
(* Empty and blank sources (C13)                                           *)
(***************************************************************************)
MaxBlank == 3

\* The empty string and the runs of up to MaxBlank space/tab/CR/LF characters
BlankInputs == SeqsOf(Multispace, 0, MaxBlank)

InitBlank == InitWith(BlankInputs)

SpecBlank == InitBlank /\ [][NextNom]_vars

VarXGroupedPrintX ==
    <<"v","a","r"," ","x"," ","="," ","(","1"," ","+"," ","2",")"," ","*"," ","3",";",
      " ","p","r","i","n","t"," ","x",";">>

BenchmarkInputs ==
    GoodStatements \cup BadClosed \cup BadOpen \cup { <<>>, VarXGroupedPrintX }

InitBenchmark == InitWith(BenchmarkInputs)

SpecBenchmark == InitBenchmark /\ [][NextBenchmark]_vars

MaxSource == 3

\* Blanks, the comment and string openers, a digit, the dot, a letter, an
\* operator with a two-character form, a delimiter, and an ASCII and a
\* two-byte character lex has no arm for
LexChars == {" ", "\n", "/", "\"", "1", ".", "a", "=", ";", "@", "U+00E9"}

OneDot == <<"1", ".">>

OneDotTwoDotThree == <<"1", ".", "2", ".", "3">>

UnterminatedString == <<"p","r","i","n","t"," ","\"","h","i">>

LexInputs ==
    SeqsOf(LexChars, 0, MaxSource) \cup { OneDot, OneDotTwoDotThree, UnterminatedString }

InitLex == InitWith(LexInputs)

SpecLex == InitLex /\ [][NextLex]_vars

\* &source[span] of the k-th token
TokenText(k) == ByteSlice(input, lexed.spans[k][1], lexed.spans[k][2])

(***************************************************************************)
(* NUMBER tokens (C15)                                                     *)
(***************************************************************************)
\* digits, or digits `.` digits
DigitsDotDigits(text) ==
    LET n == RunLen(text, Digit)
    IN  /\ n >= 1
        /\ \/ n = Len(text)
           \/ /\ Len(text) > n + 1
              /\ text[n + 1] = "."
              /\ RunLen(Drop(text, n + 1), Digit) = Len(text) - (n + 1)

\* C15: every NUMBER token of lex has a text of digits or digits `.` digits,
\* and convert_primary turns it into a number without an error.
C15_NumberTextConverts ==
    lexed # NotRun =>
        \A k \in 1..Len(lexed.tokens) :
            lexed.tokens[k] = "NUMBER" =>
                /\ DigitsDotDigits(TokenText(k))
                /\ convert_primary_number(TokenText(k)).status = "Ok"

\* What lex does instead: a NUMBER is a digit and the longest run of digits
\* and dots after it, so `1.` and `1.2.3` are one NUMBER each
C15_NumberIsDigitThenDigitsAndDots ==
    lexed # NotRun =>
        /\ \A k \in 1..Len(lexed.tokens) :
               lexed.tokens[k] = "NUMBER" =>
                   /\ TokenText(k)[1] \in Digit
                   /\ RunLen(TokenText(k), Digit \cup {"."}) = Len(TokenText(k))
        /\ input = OneDot => lexed.tokens = <<"NUMBER", "EOF">>
        /\ input = OneDotTwoDotThree =>
               /\ lexed.tokens = <<"NUMBER", "EOF">>
               /\ convert_primary_number(TokenText(1)).status = "Err"

(***************************************************************************)
(* Lexical errors (C16)                                                    *)
(***************************************************************************)
\* A STRING token that ran to the end of the source with no closing quote
Unterminated(k) ==
    /\ lexed.tokens[k] = "STRING"
    /\ \/ Len(TokenText(k)) = 1
       \/ TokenText(k)[Len(TokenText(k))] # "\""

\* The unrecognized characters and unterminated strings of the lexed source
LexicalErrors ==
    { k \in 1..Len(lexed.tokens) : lexed.tokens[k] = "Error" \/ Unterminated(k) }

\* C16: lex leaves in diags one diagnostic for every unrecognized character
\* and one for every unterminated string of the source (diags was empty
\* before the call), and leaves diags unchanged only when there are none.
C16_DiagnosticsRecorded ==
    lexed # NotRun => Len(lexed.diags) = Cardinality(LexicalErrors)

\* What lex does instead: diags is never written, whatever the source holds
C16_DiagsUntouched ==
    lexed # NotRun =>
        /\ lexed.diags = <<>>
        /\ input = <<"@">> => lexed.tokens = <<"Error", "EOF">>
        /\ input = UnterminatedString =>
               /\ lexed.tokens = <<"PRINT", "STRING", "EOF">>
               /\ Unterminated(2)

(***************************************************************************)
(* The EOF sentinel (C17)                                                  *)
(***************************************************************************)
\* C17: for every source lex returns token and span vectors of equal
\* length whose last token is EOF with the zero-width span
\* [len(source), len(source)) in bytes, and EOF is at no other position.
C17_EndsWithEOF ==
    lexed # NotRun =>
        /\ Len(lexed.tokens) = Len(lexed.spans)
        /\ Len(lexed.tokens) >= 1
        /\ lexed.tokens[Len(lexed.tokens)] = "EOF"
        /\ lexed.spans[Len(lexed.spans)] = <<ByteLen(input), ByteLen(input)>>
        /\ \A k \in 1..(Len(lexed.tokens) - 1) : lexed.tokens[k] # "EOF"

\* A two-byte unrecognized character and a letter: EOF sits at byte 3
C17_Witness ==
    /\ input = <<"U+00E9", "a">>
    /\ lexed # NotRun
    /\ lexed.tokens = <<"Error", "IDENTIFIER", "EOF">>
    /\ lexed.spans = <<<<0, 2>>, <<2, 3>>, <<3, 3>>>>

(***************************************************************************)
(* Keywords and identifiers in lex (C18)                                   *)
(***************************************************************************)
\* Runs of letters, digits and `_` that start with a letter or `_`: the
\* keywords, the keywords continued, and runs that differ from a keyword in
\* case, by a leading `_` or by a missing letter
IdentifierRuns ==
    Keywords \cup KeywordPrefixed
    \cup { <<"P","r","i","n","t">>, <<"T","R","U","E">>, <<"_","v","a","r">>,
           <<"o","r","1">>, <<"p","r","i","n">>, <<"x">>, <<"_">> }

\* What stands before a run, with the tokens it lexes to
RunFronts ==
    { [src |-> <<>>, tokens |-> <<>>],
      [src |-> <<" ">>, tokens |-> <<>>],
      [src |-> <<"(">>, tokens |-> <<"LEFT_PAREN">>],
      [src |-> <<"1", " ", "+">>, tokens |-> <<"NUMBER", "PLUS">>] }

\* What stands after a run, with the tokens it lexes to
RunBacks ==
    { [src |-> <<>>, tokens |-> <<"EOF">>],
      [src |-> <<";">>, tokens |-> <<"SEMICOLON", "EOF">>],
      [src |-> <<" ", "y">>, tokens |-> <<"IDENTIFIER", "EOF">>],
      [src |-> <<"=", "=", "1">>, tokens |-> <<"EQUAL_EQUAL", "NUMBER", "EOF">>] }

RunInputs ==
    { f.src \o run \o b.src : f \in RunFronts, run \in IdentifierRuns, b \in RunBacks }

InitRun == InitWith(RunInputs)

SpecRun == InitRun /\ [][NextLex]_vars

\* The keyword token of a keyword's text
KeywordToken(w) ==
    CASE w = <<"t","r","u","e">> -> "TRUE" [] w = <<"f","a","l","s","e">> -> "FALSE"
      [] w = <<"n","i","l">> -> "NIL" [] w = <<"p","r","i","n","t">> -> "PRINT"
      [] w = <<"v","a","r">> -> "VAR" [] w = <<"a","n","d">> -> "AND"
      [] w = <<"o","r">> -> "OR"

\* The front, the maximal run and the back a source of RunInputs is made of
RunFrontOf(i) ==
    CHOOSE f \in RunFronts :
        /\ StartsWith(i, f.src)
        /\ Len(i) > Len(f.src)
        /\ i[Len(f.src) + 1] \in Alpha \cup {"_"}

MaximalRunOf(i) ==
    LET rest == Drop(i, Len(RunFrontOf(i).src))
    IN  Take(rest, RunLen(rest, AlphaNumeric \cup {"_"}))

RunBackOf(i) ==
    CHOOSE b \in RunBacks :
        b.src = Drop(i, Len(RunFrontOf(i).src) + Len(MaximalRunOf(i)))

\* C18: a maximal run of ASCII letters, digits and `_` that starts with a
\* letter or `_` is one token spanning the whole run: the keyword token when
\* the run is exactly a keyword, IDENTIFIER otherwise.
C18_OneTokenPerRun ==
    lexed # NotRun =>
        /\ MaximalRunOf(input) \in IdentifierRuns
        /\ lexed.tokens =
               RunFrontOf(input).tokens
               \o <<IF MaximalRunOf(input) \in Keywords
                    THEN KeywordToken(MaximalRunOf(input)) ELSE "IDENTIFIER">>
               \o RunBackOf(input).tokens
        /\ lexed.spans[Len(RunFrontOf(input).tokens) + 1] =
               <<Len(RunFrontOf(input).src),
                 Len(RunFrontOf(input).src) + Len(MaximalRunOf(input))>>
        /\ TokenText(Len(RunFrontOf(input).tokens) + 1) = MaximalRunOf(input)

\* `printer` between a parenthesis and a semicolon is one IDENTIFIER
C18_Witness ==
    /\ input = <<"(","p","r","i","n","t","e","r",";">>
    /\ lexed # NotRun
    /\ lexed.tokens = <<"LEFT_PAREN", "IDENTIFIER", "SEMICOLON", "EOF">>
    /\ lexed.spans[2] = <<1, 8>>

(***************************************************************************)
(* Comments and blanks between tokens (C19)                                *)
(***************************************************************************)
LineComment == <<"/", "/", " ", "c", "\n">>

\* source with f put in at byte offset b
InsertAtByte(source, b, f) ==
    ByteSlice(source, 0, b) \o f \o ByteSlice(source, b, ByteLen(source))

\* The text of each token of lex's output l for source
Texts(source, l) ==
    [k \in 1..Len(l.tokens) |-> ByteSlice(source, l.spans[k][1], l.spans[k][2])]

\* lex of the changed source has the token kinds and texts of lexed
SameTokens(changed) ==
    /\ lex(changed, <<>>).tokens = lexed.tokens
    /\ Texts(changed, lex(changed, <<>>)) = Texts(input, lexed)

\* The two edges of the boundary between token k and token k + 1: the end
\* of the one and the start of the other
Edges(k) == { lexed.spans[k][2], lexed.spans[k + 1][1] }

\* C19 as stated: at every boundary between two adjacent tokens, putting in
\* `// comment\n` or a run of space/tab/CR/LF leaves the token kinds and the
\* token texts unchanged.
C19_InsertionInvariant ==
    lexed # NotRun =>
        \A k \in 1..(Len(lexed.tokens) - 1) : \A b \in Edges(k) : \A f \in Fillers :
            SameTokens(InsertAtByte(input, b, f))

\* C19 amended: the same, except directly after a SLASH token for the
\* comment, and except after a string with no closing quote.
C19_InsertionInvariantAwayFromSlash ==
    lexed # NotRun =>
        \A k \in 1..(Len(lexed.tokens) - 1) : \A b \in Edges(k) : \A f \in Fillers :
            ( /\ ~Unterminated(k)
              /\ ~(f = LineComment /\ lexed.tokens[k] = "SLASH" /\ b = lexed.spans[k][2]) )
            => SameTokens(InsertAtByte(input, b, f))

\* `1/1` with the comment between the first NUMBER and the SLASH
C19_Witness ==
    /\ input = <<"1", "/", "1">>
    /\ lexed # NotRun
    /\ lexed.tokens = <<"NUMBER", "SLASH", "NUMBER", "EOF">>
    /\ 1 \in Edges(1)
    /\ InsertAtByte(input, 1, LineComment) = <<"1", "/", "/", " ", "c", "\n", "/", "1">>
    /\ SameTokens(InsertAtByte(input, 1, LineComment))

(***************************************************************************)
(* compare_parsers with one parser (C20)                                   *)
(***************************************************************************)
FortyTwo == <<"4", "2", ";">>

CompareInputs ==
    GoodStatements \cup BadClosed \cup BadOpen \cup { <<>>, FortyTwo, VarXGroupedPrintX }

InitCompare == InitWith(CompareInputs)

SpecCompare == InitCompare /\ [][NextCompare]_vars

\* compare_parsers was given one parser and it succeeded
OneParserSucceeded ==
    /\ comparison # NotRun
    /\ comparison.accuracy_summary.total_parsers = 1
    /\ comparison.results[1].result.success

\* C20: when compare_parsers is run with exactly one parser and it succeeds,
\* consensus_ast is Some(program) and accuracy_summary.consensus_reached is true.
C20_SingleParserConsensus ==
    OneParserSucceeded =>
        /\ comparison.consensus_ast = comparison.results[1].result.program
        /\ comparison.consensus_ast # <<>>
        /\ comparison.accuracy_summary.consensus_reached = TRUE

\* What compare_parsers does instead: consensus_ast is Some(program), and
\* consensus_reached is false because it asks for more than one success
C20_SingleParserNoConsensus ==
    OneParserSucceeded =>
        /\ comparison.consensus_ast = comparison.results[1].result.program
        /\ comparison.consensus_ast # <<>>
        /\ comparison.accuracy_summary.consensus_reached = FALSE

(***************************************************************************)
(* The results and counts of compare_parsers (C21)                         *)
(***************************************************************************)
ParserLists == UNION { [1..n -> {"nom", "chumsky"}] : n \in 0..MaxParsers }

OnePlusTwo == <<"1", " ", "+", " ", "2", ";">>

\* What a run of whitespace and comments is made of
TriviaParts == { <<" ">>, <<"\t", "\n">>, <<"/", "/", " ", "c", "\n">> }

\* Up to MaxBlank parts of whitespace and comments, then nothing, a
\* statement, a lone `/`, or a comment that runs to the end
WsInputs ==
    { JoinWith(lead, <<>>) \o tail :
        lead \in SeqsOf(TriviaParts, 0, MaxBlank),
        tail \in { <<>>, OnePlusTwo, <<"/">>, <<"x", " ">>, <<"/", "/", "c">> } }

InitWs == InitWith(WsInputs)

SpecWs == InitWs /\ [][NextWinnow]_vars

\* What is left of a text after its leading whitespace and `//` comments
RECURSIVE SkipTrivia(_)
SkipTrivia(i) ==
    IF i = <<>> THEN i
    ELSE IF Head(i) \in Multispace THEN SkipTrivia(Tail(i))
    ELSE IF StartsWith(i, <<"/", "/">>)
         THEN SkipTrivia(Drop(i, 2 + RunLenNot(Drop(i, 2), {"\n"})))
    ELSE i

\* C22: ws succeeds on every input, consuming exactly the maximal leading
\* run of whitespace and `//` comments, and parse_program("1 + 2;") is Ok
\* with the one statement Expression(Binary{Add, 1, 2}).
C22_WsSucceeds ==
    winnowResult # NotRun =>
        /\ winnowResult.ws.tag = "Ok"
        /\ winnowResult.ws.rest = SkipTrivia(input)
        /\ input = OnePlusTwo =>
               winnowResult.result =
                   ResultOk(<<StmtExpression(Binary(
                                Literal(ValueNumber(FALSE, 1, 0)), "Add",
                                Literal(ValueNumber(FALSE, 2, 0))))>>)

\* What ws does instead: multispace0 succeeds on every text, so the loop of
\* repeat always reaches a round in which nothing is consumed and ends with
\* the assertion; no call of ws succeeds and no parse_program is Ok
C22_WsNeverSucceeds ==
    winnowResult # NotRun =>
        /\ winnowResult.ws = winnow_assert(winnowResult.build)
        /\ winnowResult.build = "debug" => winnowResult.result = ResultPanic
        /\ winnowResult.build = "release" => winnowResult.result = ResultErr("ParseError")

(***************************************************************************)
(* Program keeps insertion order (C23)                                     *)
(***************************************************************************)
InitAst == InitWith({ <<>> })

SpecAst == InitAst /\ [][NextProgram]_vars

\* C23: after Program::new(v) and add_statement(s1), ..., add_statement(sn)
\* statements() is v followed by s1..sn in call order, and is_empty() is
\* true iff that sequence is empty.
C23_InsertionOrder ==
    theProgram # NotRun =>
        /\ Program_statements(theProgram.value) = theProgram.new \o theProgram.added
        /\ Program_is_empty(theProgram.value)
               <=> Len(theProgram.new) + Len(theProgram.added) = 0

\* new with one statement, then two different statements added
C23_Witness ==
    /\ theProgram # NotRun
    /\ theProgram.new = <<StmtPrint(Literal(ValueNil))>>
    /\ theProgram.added = <<StmtVarDeclaration(<<"x">>, <<>>),
                            StmtExpression(Literal(ValueNumber(FALSE, 1, 0)))>>
    /\ Program_statements(theProgram.value) =
           <<StmtPrint(Literal(ValueNil)), StmtVarDeclaration(<<"x">>, <<>>),
             StmtExpression(Literal(ValueNumber(FALSE, 1, 0)))>>

(***************************************************************************)
(* The CSTs of Parser::parse.  The generated parser is not part of the     *)
(* sources; the nodes follow the grammar of the design (program,           *)
(* statement, printStmt, varDecl, exprStmt, and the expression levels from *)
(* assignment down to primary), with the child layouts the convert_*       *)
(* functions index: `factor [+ term]`, `unary [* factor]`, `(! | -) unary`.*)
(* A binary level is given in two layouts, nested to the right             *)
(* (operand, operator, same level) and flat (operand, operator, operand,   *)
(* ...), since the conversions hold for both.                              *)
(***************************************************************************)
CstToken(name, text) == [kind |-> "token", name |-> name, text |-> text, children |-> <<>>]

CstRule(name, children) == [kind |-> "rule", name |-> name, text |-> <<>>, children |-> children]

CstLevels ==
    <<"Primary", "Unary", "Factor", "Term", "Comparison", "Equality",
      "LogicalAnd", "LogicalOr", "Assignment", "Expression">>

CstLevelIndex(name) == CHOOSE k \in 1..Len(CstLevels) : CstLevels[k] = name

\* node as the only child of the level above, repeated up to level `to`
RECURSIVE CstLift(_, _)
CstLift(node, to) ==
    IF node.name = to THEN node
    ELSE CstLift(CstRule(CstLevels[CstLevelIndex(node.name) + 1], <<node>>), to)

CstPrimary(token) == CstRule("Primary", <<token>>)

\* operand, operator, and the rest of the chain at the same level
CstNested(level, left, token, right) ==
    CstRule(level, <<CstLift(left, CstLevels[CstLevelIndex(level) - 1]), token,
                     CstLift(right, level)>>)

\* operand, operator, operand
CstFlat(level, left, token, right) ==
    CstRule(level, <<CstLift(left, CstLevels[CstLevelIndex(level) - 1]), token,
                     CstLift(right, CstLevels[CstLevelIndex(level) - 1])>>)

\* IDENTIFIER `=` assignment
CstAssign(name, value) ==
    CstRule("Assignment", <<CstToken("IDENTIFIER", name), CstToken("EQUAL", <<"=">>),
                            CstLift(value, "Assignment")>>)

CstExpressionStmt(e) ==
    CstRule("Statement",
            <<CstRule("ExpressionStmt",
                      <<CstLift(e, "Expression"), CstToken("SEMICOLON", <<";">>)>>)>>)

CstPrintStmt(e) ==
    CstRule("Statement",
            <<CstRule("PrintStmt",
                      <<CstToken("PRINT", <<"p","r","i","n","t">>),
                        CstLift(e, "Expression"), CstToken("SEMICOLON", <<";">>)>>)>>)

CstVarDeclaration(name, e) ==
    CstRule("Statement",
            <<CstRule("VarDeclaration",
                      <<CstToken("VAR", <<"v","a","r">>), CstToken("IDENTIFIER", name),
                        CstToken("EQUAL", <<"=">>), CstLift(e, "Expression"),
                        CstToken("SEMICOLON", <<";">>)>>)>>)

CstProgram(statements) == CstRule("Program", statements)

(***************************************************************************)
(* Statements whose conversion fails (C24)                                 *)
(***************************************************************************)
CstNumber(text) == CstPrimary(CstToken("NUMBER", text))

CstIdentifier(name) == CstPrimary(CstToken("IDENTIFIER", name))

\* `a;`, `print 1;`, `var x = 2;`, and three statements that hold the
\* NUMBER `1.2.3`: `1.2.3;`, `print 1.2.3;`, `var y = a + 1.2.3;`
DropStatements ==
    { CstExpressionStmt(CstIdentifier(<<"a">>)),
      CstPrintStmt(CstNumber(<<"1">>)),
      CstVarDeclaration(<<"x">>, CstNumber(<<"2">>)),
      CstExpressionStmt(CstNumber(OneDotTwoDotThree)),
      CstPrintStmt(CstNumber(OneDotTwoDotThree)),
      CstVarDeclaration(<<"y">>,
          CstNested("Term", CstLift(CstIdentifier(<<"a">>), "Factor"),
                    CstToken("PLUS", <<"+">>), CstNumber(OneDotTwoDotThree))) }

\* Programs of up to MaxStatements + 1 of these statements, parsed with and
\* without a diagnostic
DropInputs ==
    { [cst |-> CstProgram(ss), diags |-> d] :
        ss \in SeqsOf(DropStatements, 0, MaxStatements + 1),
        d \in { <<>>, <<"syntax error">> } }

InitDrop == InitWith(DropInputs)

SpecDrop == InitDrop /\ [][NextConvert]_vars

\* The Statement nodes of the CST, in order
StatementNodes == SelectSeq(input.cst.children, LAMBDA n : match_rule(n, "Statement"))

\* C24: when convert_statement fails for a Statement node of the CST,
\* parse_program returns Err, and an Ok(Program) holds one Stmt for every
\* Statement node, in order.
C24_NoStatementDropped ==
    converted # NotRun =>
        /\ (\E k \in 1..Len(StatementNodes) :
                convert_statement(StatementNodes[k]).status # "Ok")
               => converted.status = "Err"
        /\ converted.status = "Ok" =>
               /\ Len(converted.statements) = Len(StatementNodes)
               /\ \A k \in 1..Len(StatementNodes) :
                      ConvOk(converted.statements[k]) = convert_statement(StatementNodes[k])

\* What convert_cst does instead: without diagnostics the result is always
\* Ok, holding the statements that converted and none of the others
C24_FailedStatementsLeftOut ==
    converted # NotRun /\ input.diags = <<>> =>
        /\ converted.status = "Ok"
        /\ Len(converted.statements) =
               Cardinality({ k \in 1..Len(StatementNodes) :
                               convert_statement(StatementNodes[k]).status = "Ok" })

(***************************************************************************)
(* Assignment and the logical, equality and comparison operators (C25)     *)
(***************************************************************************)
\* An expression case: the CST of the expression and the AST the grammar
\* gives it
ExprCase(cst, ast) == [cst |-> cst, ast |-> ast]

\* `a`, `b`, `1`
LeafCases ==
    { ExprCase(CstIdentifier(<<"a">>), Variable(<<"a">>)),
      ExprCase(CstIdentifier(<<"b">>), Variable(<<"b">>)),
      ExprCase(CstNumber(<<"1">>), convert_primary_number(<<"1">>).expr) }

\* The operators of the claim: level, token, BinaryOp
OperatorTokens ==
    { <<"LogicalOr", CstToken("OR", <<"o","r">>), "Or">>,
      <<"LogicalAnd", CstToken("AND", <<"a","n","d">>), "And">>,
      <<"Equality", CstToken("EQUAL_EQUAL", <<"=","=">>), "Equal">>,
      <<"Equality", CstToken("BANG_EQUAL", <<"!","=">>), "NotEqual">>,
      <<"Comparison", CstToken("GREATER", <<">">>), "Greater">>,
      <<"Comparison", CstToken("GREATER_EQUAL", <<">","=">>), "GreaterEqual">>,
      <<"Comparison", CstToken("LESS", <<"<">>), "Less">>,
      <<"Comparison", CstToken("LESS_EQUAL", <<"<","=">>), "LessEqual">> }

\* `l op r` in both layouts, and `x = e`
OperatorCases ==
    { ExprCase(CstNested(o[1], l.cst, o[2], r.cst), Binary(l.ast, o[3], r.ast)) :
        o \in OperatorTokens, l \in LeafCases, r \in LeafCases }
    \cup { ExprCase(CstFlat(o[1], l.cst, o[2], r.cst), Binary(l.ast, o[3], r.ast)) :
        o \in OperatorTokens, l \in LeafCases, r \in LeafCases }
    \cup { ExprCase(CstAssign(<<"x">>, e.cst), Assignment(<<"x">>, e.ast)) :
        e \in LeafCases }

\* One expression statement `e;`, parsed without diagnostics; `reference`
\* is the Program of the grammar
StatementInput(e) ==
    [cst |-> CstProgram(<<CstExpressionStmt(e.cst)>>), diags |-> <<>>,
     reference |-> <<StmtExpression(e.ast)>>]

OperatorInputs == { StatementInput(e) : e \in OperatorCases }

InitOperators == InitWith(OperatorInputs)

SpecOperators == InitOperators /\ [][NextConvert]_vars

\* C25: the conversion keeps every operator and operand: `x = e` becomes
\* Assignment{x, e}, and each of or, and, ==, !=, >, >=, <, <= becomes a
\* Binary node that holds its right operand.
C25_OperatorsKept ==
    converted # NotRun => converted = ResultOk(input.reference)

\* What the conversions do instead: the statement is the left operand
\* alone, or is left out of the Program
C25_OnlyLeftOperand ==
    converted # NotRun =>
        /\ converted.status = "Ok"
        /\ \/ converted.statements = <<>>
           \/ \E l \in LeafCases : converted.statements = <<StmtExpression(l.ast)>>

(***************************************************************************)
(* Chains of + - and * / (C26)                                             *)
(***************************************************************************)
\* level, token, BinaryOp
ChainTokens ==
    { <<"Term", CstToken("PLUS", <<"+">>), "Add">>,
      <<"Term", CstToken("MINUS", <<"-">>), "Subtract">>,
      <<"Factor", CstToken("STAR", <<"*">>), "Multiply">>,
      <<"Factor", CstToken("SLASH", <<"/">>), "Divide">> }

\* Two operators of one level
ChainPairs == { c \in ChainTokens \X ChainTokens : c[1][1] = c[2][1] }

\* The operand below `level`, as flat layouts hold it
CstOperand(level, e) == CstLift(e, CstLevels[CstLevelIndex(level) - 1])

\* `l o m p r` with o and p of one level: nested to the right as the
\* conversions index it (operand, operator, rest), and flat (five children);
\* the grammar folds it to the left
ChainCases ==
    { ExprCase(CstNested(c[1][1], lft.cst, c[1][2], CstNested(c[2][1], mid.cst, c[2][2], rgt.cst)),
               Binary(Binary(lft.ast, c[1][3], mid.ast), c[2][3], rgt.ast)) :
        c \in ChainPairs,
        lft \in LeafCases, mid \in LeafCases, rgt \in LeafCases }
    \cup
    { ExprCase(CstRule(c[1][1], <<CstOperand(c[1][1], lft.cst), c[1][2], CstOperand(c[1][1], mid.cst),
                               c[2][2], CstOperand(c[1][1], rgt.cst)>>),
               Binary(Binary(lft.ast, c[1][3], mid.ast), c[2][3], rgt.ast)) :
        c \in ChainPairs,
        lft \in LeafCases, mid \in LeafCases, rgt \in LeafCases }

ChainInputs == { StatementInput(e) : e \in ChainCases }

InitChains == InitWith(ChainInputs)

SpecChains == InitChains /\ [][NextConvert]_vars

\* C26: convert_term and convert_factor build left-deep trees:
\* `a - b - c` becomes Binary{Subtract, Binary{Subtract, a, b}, c} and
\* `a / b / c` becomes Binary{Divide, Binary{Divide, a, b}, c}.
C26_LeftDeep ==
    converted # NotRun => converted = ResultOk(input.reference)

\* The left-deep tree of a statement turned to the right:
\* (l o m) p r  becomes  l o (m p r)
TurnedRight(stmt) ==
    StmtExpression(Binary(stmt.kids[1].kids[1].kids[1], stmt.kids[1].kids[1].op,
                          Binary(stmt.kids[1].kids[1].kids[2], stmt.kids[1].op,
                                 stmt.kids[1].kids[2])))

\* What the conversions do instead: a three-child node becomes
\* Binary{left, op, convert of the rest}, a tree nested to the right, and a
\* node of any other length becomes its first operand alone
C26_RightDeepOrFirstOperand ==
    converted # NotRun =>
        /\ converted.status = "Ok"
        /\ \/ converted.statements = <<TurnedRight(input.reference[1])>>
           \/ converted.statements =
                  <<StmtExpression(input.reference[1].kids[1].kids[1].kids[1])>>

(***************************************************************************)
(* nom-lox: string literals of any run of characters (C27)                 *)
(***************************************************************************)
\* Longest run between the quotes
MaxRun == 2

\* Characters other than the quote
RunChars == {"a", "1", " ", "/", ";"}

Quoted(run) == <<"\"">> \o run \o <<"\"">>

PrintWord == <<"p","r","i","n","t"," ">>

\* `"run";` and `print "run";`
QuotedInputs ==
    { Quoted(run) \o <<";">> : run \in SeqsOf(RunChars, 0, MaxRun) }
    \cup { PrintWord \o Quoted(run) \o <<";">> : run \in SeqsOf(RunChars, 0, MaxRun) }

InitQuoted == InitWith(QuotedInputs)

SpecQuoted == InitQuoted /\ [][NextNom]_vars

\* The input is `print "run";`
IsPrintInput == Len(input) >= Len(PrintWord) /\ SubSeq(input, 1, Len(PrintWord)) = PrintWord

\* The run between the quotes of the input
QuotedRun ==
    IF IsPrintInput THEN SubSeq(input, Len(PrintWord) + 2, Len(input) - 2)
    ELSE SubSeq(input, 2, Len(input) - 2)

\* The statement the grammar gives the input
QuotedStmt ==
    IF IsPrintInput THEN StmtPrint(Literal(ValueString(QuotedRun)))
    ELSE StmtExpression(Literal(ValueString(QuotedRun)))

\* C27: a string literal of any run of non-quote characters is accepted,
\* the empty run included: `"";` is Expression(Literal(String(""))) and
\* `print "";` is Print(Literal(String(""))).
C27_AnyRunAccepted ==
    nomResult # NotRun => nomResult = ResultOk(<<QuotedStmt>>)

\* What string_literal does instead: take_while1 needs one character, so
\* the runs of one character and more are accepted and the empty run is an
\* error
C27_EmptyRunRejected ==
    nomResult # NotRun =>
        IF QuotedRun = <<>> THEN nomResult.status = "Err"
        ELSE nomResult = ResultOk(<<QuotedStmt>>)

(***************************************************************************)
(* The consensus of compare_parsers (C28)                                  *)
(***************************************************************************)
EmptyStringStmt == <<"\"", "\"", ";">>

DotFive == <<".", "5", ";">>

OneExpTwo == <<"1", "e", "2", ";">>

\* The inputs of SpecCompare, and three that one of the two parsers rejects:
\* nom-lox rejects `"";`, chumsky-lox rejects `.5;` and `1e2;`
ConsensusInputs == CompareInputs \cup { EmptyStringStmt, DotFive, OneExpTwo }

InitConsensus == InitWith(ConsensusInputs)

SpecConsensus == InitConsensus /\ [][NextCompare]_vars

\* The results of the parsers that succeeded, in order
SuccessfulResults == SelectSeq(comparison.results, LAMBDA r : r.result.success)

\* The Program of the k-th parser that succeeded
SuccessfulProgram(k) == SuccessfulResults[k].result.program[1]

\* The names of the parsers that succeeded, in order
SuccessfulParsers == [k \in 1..Len(SuccessfulResults) |-> SuccessfulResults[k].parser_name]

RECURSIVE IsTrivia(_, _)
IsTrivia(text, atEnd) ==
    IF text = <<>> THEN TRUE
    ELSE IF Head(text) \in {" ", "\t", "\r", "\n"} THEN IsTrivia(Tail(text), atEnd)
    ELSE IF Len(text) >= 2 /\ text[1] = "/" /\ text[2] = "/"
    THEN IF \E k \in 1..Len(text) : text[k] = "\n"
         THEN IsTrivia(SubSeq(text, 1 + (CHOOSE k \in 1..Len(text) :
                                            /\ text[k] = "\n"
                                            /\ \A j \in 1..(k - 1) : text[j] # "\n"),
                              Len(text)), atEnd)
         ELSE atEnd
    ELSE FALSE

\* The byte where the k-th gap starts: the end of the token before
GapStart(k) == IF k = 1 THEN 0 ELSE lexed.spans[k - 1][2]

\* C29: the spans of lex are well formed: every token but EOF has
\* 0 <= start < end <= source.len(), both on character boundaries; the spans
\* are in order and do not overlap; the bytes no span covers are blanks and
\* comments; and the span of an Error token covers exactly one character.
C29_SpansWellFormed ==
    lexed # NotRun =>
        /\ \A k \in 1..(Len(lexed.tokens) - 1) :
               /\ 0 <= lexed.spans[k][1]
               /\ lexed.spans[k][1] < lexed.spans[k][2]
               /\ lexed.spans[k][2] <= ByteLen(input)
               /\ is_char_boundary(input, lexed.spans[k][1])
               /\ is_char_boundary(input, lexed.spans[k][2])
               /\ lexed.tokens[k] = "Error" => Len(TokenText(k)) = 1
        /\ \A k \in 1..Len(lexed.tokens) :
               /\ GapStart(k) <= lexed.spans[k][1]
               /\ IsTrivia(ByteSlice(input, GapStart(k), lexed.spans[k][1]),
                           lexed.spans[k][1] = ByteLen(input))

\* `é`, a newline, `=`: an Error token over the two bytes of `é`, a gap of
\* one byte, and EQUAL
C29_Witness ==
    /\ input = <<"U+00E9", "\n", "=">>
    /\ lexed # NotRun
    /\ lexed.tokens = <<"Error", "EQUAL", "EOF">>
    /\ lexed.spans = <<<<0, 2>>, <<3, 4>>, <<4, 4>>>>

(***************************************************************************)
(* STRING tokens and the slice of convert_primary (C30)                    *)
(***************************************************************************)
\* The characters after the opening quote of text, up to the next quote
AfterQuote(text) == Take(Tail(text), RunLenNot(Tail(text), {"\""}))

\* text[1..text.len()-1] does not panic and is the characters between the
\* quotes of text
SliceIsContent(text) ==
    /\ ByteLen(text) >= 2
    /\ text[1] = "\""
    /\ text[Len(text)] = "\""
    /\ string_content(text) = <<AfterQuote(text)>>

\* C30: the span of every STRING token has two bytes or more and starts and
\* ends with a quote, so that text[1..text.len()-1] of convert_primary is in
\* bounds and is the characters between the quotes, for terminated and
\* unterminated strings alike.
C30_SliceInBounds ==
    lexed # NotRun =>
        \A k \in 1..Len(lexed.tokens) :
            lexed.tokens[k] = "STRING" => SliceIsContent(TokenText(k))

\* What happens instead: the slice is the content for the strings that have
\* their closing quote; for the others it panics or loses the last character
C30_SliceOfTerminatedOnly ==
    lexed # NotRun =>
        /\ \A k \in 1..Len(lexed.tokens) :
               lexed.tokens[k] = "STRING" =>
                   IF Unterminated(k)
                   THEN \/ string_content(TokenText(k)) = <<>>
                        \/ /\ AfterQuote(TokenText(k)) # <<>>
                           /\ string_content(TokenText(k)) =
                                  <<Take(AfterQuote(TokenText(k)),
                                         Len(AfterQuote(TokenText(k))) - 1)>>
                   ELSE SliceIsContent(TokenText(k))
        /\ input = <<"\"">> =>
               /\ lexed.tokens = <<"STRING", "EOF">>
               /\ lexed.spans[1] = <<0, 1>>
               /\ string_content(TokenText(1)) = <<>>
        /\ input = UnterminatedString =>
               string_content(TokenText(2)) = <<<<"h">>>>

====
